---- MODULE Spec2Model ----
(***************************************************************************)
(* Image management core of the 2D graphics runtime: the texture atlas     *)
(* (package shareable), the restoration registry (package restorable,      *)
(* images.go) and the packer and per-image restoration state they use.     *)
(*                                                                         *)
(* Conventions.  A Go pointer is an identifier (a positive integer), nil   *)
(* is 0.  A byte slice is a record [len, nz]: its length and its non-zero  *)
(* bytes by 0-based index (len = -1 is the nil slice).  A texture is the   *)
(* function from the coordinates of its non-zero pixels to RGBA tuples.    *)
(* Handlers are operators from a world record (the program variables) to   *)
(* a world record, so that a handler can call another one; a panic is      *)
(* recorded in the field panicked and ends the program.                    *)
(***************************************************************************)
EXTENDS Integers, Sequences, FiniteSets, TLC

VARIABLES
    images,              \* shareable.Image structs by handle
    backends,            \* backend structs by pointer
    theBackends,         \* shareable.theBackends: sequence of backend pointers
    imagesToMakeShared,  \* shareable.imagesToMakeShared
    minSize, maxSize,    \* shareable.minSize, shareable.maxSize
    onceDone,            \* the sync.Once of the before-update hook
    rimgs,               \* restorable.Image structs by pointer
    theImages,           \* restorable.theImages: [images, lastTarget]
    forceRestoring,      \* restorable.forceRestoring
    driver,              \* the graphics driver's capabilities
    panicked,            \* "" or the message of the panic that ended the program
    lastOp,              \* the entry point that ran last, with its arguments
    steps,               \* number of entry points called so far
    frames,              \* number of before-update passes of the game loop so far
    screenOrVolatile,    \* history: the handles NewScreenFramebufferImage returned
                         \* and those MakeVolatile was called on
    sorted,              \* the slice sorted of the last call of restore: the order
                         \* in which it restored the images
    resolved,            \* history: "resolved" when resolveStaleImages has run and no
                         \* image was created, written or disposed since, "returned"
                         \* when ResolveStaleImages returned without it, else "dirty"
    mutex,               \* shareable.backendsM: "" or the goroutine that holds it
    pc,                  \* the call each goroutine is in: [op, i, j, at]
    ebitenImages,        \* ebiten.Image structs by pointer
    mipmaps,             \* mipmap structs by pointer
    isRunning,           \* ebiten.isRunning: the main loop has started
    lastArgs             \* the other arguments of the call lastOp records, and
                         \* the color it returned

\* the variables of package ebiten
facadeVars == <<ebitenImages, mipmaps, isRunning, lastArgs>>

vars == <<images, backends, theBackends, imagesToMakeShared, minSize, maxSize,
          onceDone, rimgs, theImages, forceRestoring, driver, panicked, lastOp,
          steps, frames, screenOrVolatile, sorted, resolved, mutex, pc, facadeVars>>

-----------------------------------------------------------------------------
(* Bounds of the model *)

MaxImages == 3
MaxSteps == 3
\* the frames the promotion scenario runs for
MaxFrames == 11
\* the calls the restoration scenario and the goroutines scenario run for
MaxCalls == 2

-----------------------------------------------------------------------------
(* Generic helpers *)

Min(a, b) == IF a < b THEN a ELSE b
Max(a, b) == IF a > b THEN a ELSE b

Restrict(f, S) == [c \in S |-> f[c]]

\* f overridden by g where g is defined
Override(f, g) ==
    [c \in (DOMAIN f) \cup (DOMAIN g) |-> IF c \in DOMAIN g THEN g[c] ELSE f[c]]

\* Let([v \in {e} |-> body]) is body with v naming the value of e, which is
\* evaluated once: the value of a function of one argument
Let(fn) == CHOOSE r \in { g[CHOOSE v \in DOMAIN g : TRUE] : g \in {fn} } : TRUE

\* a panic with the message msg ends the program
Panic(w, msg) == IF w.panicked = "" THEN [w EXCEPT !.panicked = msg] ELSE w

\* the rest of a handler runs on the world w a call returned unless the call
\* panicked
Then(w, rest) == IF w.panicked # "" THEN w ELSE rest

\* the smallest positive integer not in used: a pointer no live object has
Fresh(used) ==
    CHOOSE r \in 1..(Cardinality(used) + 1) :
        r \notin used /\ \A q \in 1..(r - 1) : q \in used

-----------------------------------------------------------------------------
(* Pixels and byte slices *)

ZeroPx == <<0, 0, 0, 0>>
NoPixels == [c \in {} |-> ZeroPx]

NilBytes == [len |-> -1, nz |-> [k \in {} |-> 0]]

\* make([]byte, n)
MakeBytes(n) == [len |-> n, nz |-> [k \in {} |-> 0]]

ByteAt(p, k) == IF k \in DOMAIN p.nz THEN p.nz[k] ELSE 0

\* the four bytes of pixel number idx of p
PixelOfBytes(p, idx) ==
    <<ByteAt(p, 4 * idx), ByteAt(p, 4 * idx + 1),
      ByteAt(p, 4 * idx + 2), ByteAt(p, 4 * idx + 3)>>

\* p with p[4*idx .. 4*idx+3] = px, for each idx of the domain of pxs
BytesOfPixels(n, pxs) ==
    LET ks == { k \in UNION {{4 * i, 4 * i + 1, 4 * i + 2, 4 * i + 3} : i \in DOMAIN pxs} :
                    pxs[k \div 4][(k % 4) + 1] # 0 }
    IN  [len |-> n, nz |-> [k \in ks |-> pxs[k \div 4][(k % 4) + 1]]]

PixAt(pix, x, y) == IF <<x, y>> \in DOMAIN pix THEN pix[<<x, y>>] ELSE ZeroPx

InRect(c, x, y, w, h) == c[1] >= x /\ c[1] < x + w /\ c[2] >= y /\ c[2] < y + h

-----------------------------------------------------------------------------
(* package packing: a guillotine binary tree over a square page.           *)
(* A node is [x, y, w, h, used, kids]; kids is <<>> or <<child0, child1>>. *)
(* A page is [size, maxSize, root]; root is <<>> (nil) or <<node>>.        *)
(* A *packing.Node held by an image is the node's region <<x, y, w, h>>.   *)

NoNode == <<>>
NoPage == [size |-> 0, maxSize |-> 0, root |-> <<>>]

Leaf(x, y, w, h) == [x |-> x, y |-> y, w |-> w, h |-> h, used |-> FALSE, kids |-> <<>>]

Region(n) == <<n.x, n.y, n.w, n.h>>

NewPage(size, max) == [size |-> size, maxSize |-> max, root |-> <<>>]

\* a >= b for the squareness min/max of two rectangles, without division
SquareGeq(w1, h1, w2, h2) ==
    LET lo1 == Min(w1, h1)  hi1 == Max(w1, h1)
        lo2 == Min(w2, h2)  hi2 == Max(w2, h2)
    IN  IF hi2 = 0 \/ lo2 = 0 THEN TRUE
        ELSE IF hi1 = 0 \/ lo1 = 0 THEN FALSE
        ELSE lo1 * hi2 >= lo2 * hi1

RECURSIVE AllocNode(_, _, _)
\* [ok, n, r]: whether a region was found, the tree afterwards, the region
AllocNode(n, w, h) ==
    IF n.w < w \/ n.h < h \/ n.used
    THEN [ok |-> FALSE, n |-> n, r |-> NoNode]
    ELSE IF n.kids = <<>>
    THEN IF n.w = w /\ n.h = h
         THEN [ok |-> TRUE, n |-> [n EXCEPT !.used = TRUE], r |-> Region(n)]
         ELSE LET vertical == SquareGeq(n.w - w, n.h, n.w, n.h - h)
                  c0 == IF vertical THEN Leaf(n.x, n.y, w, n.h)
                                    ELSE Leaf(n.x, n.y, n.w, h)
                  c1 == IF vertical THEN Leaf(n.x + w, n.y, n.w - w, n.h)
                                    ELSE Leaf(n.x, n.y + h, n.w, n.h - h)
                  sub == AllocNode(c0, w, h)
              IN  [ok |-> sub.ok, n |-> [n EXCEPT !.kids = <<sub.n, c1>>], r |-> sub.r]
    ELSE LET r0 == AllocNode(n.kids[1], w, h)
         IN  IF r0.ok
             THEN [ok |-> TRUE, n |-> [n EXCEPT !.kids = <<r0.n, n.kids[2]>>], r |-> r0.r]
             ELSE LET r1 == AllocNode(n.kids[2], w, h)
                  IN  IF r1.ok
                      THEN [ok |-> TRUE, n |-> [n EXCEPT !.kids = <<n.kids[1], r1.n>>],
                            r |-> r1.r]
                      ELSE [ok |-> FALSE, n |-> n, r |-> NoNode]

\* (*Page).Alloc: [ok, page, r]
PageAlloc(p, w, h) ==
    LET root == IF p.root = <<>> THEN Leaf(0, 0, p.size, p.size) ELSE p.root[1]
        res == AllocNode(root, Max(w, 1), Max(h, 1))
    IN  IF res.ok
        THEN [ok |-> TRUE, page |-> [p EXCEPT !.root = <<res.n>>], r |-> res.r]
        ELSE [ok |-> FALSE, page |-> p, r |-> NoNode]

RECURSIVE CanFree(_)
CanFree(n) ==
    /\ ~n.used
    /\ n.kids = <<>> \/ (CanFree(n.kids[1]) /\ CanFree(n.kids[2]))

RECURSIVE HasLeaf(_, _)
\* the allocated leaf of region r is in the tree n
HasLeaf(n, r) ==
    IF n.kids = <<>> THEN n.used /\ Region(n) = r
    ELSE HasLeaf(n.kids[1], r) \/ HasLeaf(n.kids[2], r)

RECURSIVE FreeNode(_, _)
\* the leaf of region r is marked free and the free siblings above it are merged
FreeNode(n, r) ==
    IF n.kids = <<>>
    THEN IF Region(n) = r THEN [n EXCEPT !.used = FALSE] ELSE n
    ELSE IF HasLeaf(n.kids[1], r) \/ HasLeaf(n.kids[2], r)
    THEN LET k0 == FreeNode(n.kids[1], r)
             k1 == FreeNode(n.kids[2], r)
         IN  IF CanFree(k0) /\ CanFree(k1)
             THEN [n EXCEPT !.kids = <<>>]
             ELSE [n EXCEPT !.kids = <<k0, k1>>]
    ELSE n

\* (*Page).Free
PageFree(p, r) ==
    IF p.root = <<>> THEN p ELSE [p EXCEPT !.root = <<FreeNode(p.root[1], r)>>]

\* (*Page).IsEmpty
PageIsEmpty(p) ==
    p.root = <<>> \/ (~p.root[1].used /\ p.root[1].kids = <<>>)

\* (*Page).Extend: [ok, page]; the old tree keeps its coordinates and the new
\* area below it and right of it becomes free nodes
PageExtend(p) ==
    IF p.size >= p.maxSize THEN [ok |-> FALSE, page |-> p]
    ELSE LET s == p.size
             left == [x |-> 0, y |-> 0, w |-> s, h |-> 2 * s, used |-> FALSE,
                      kids |-> <<p.root[1], Leaf(0, s, s, s)>>]
             root == [x |-> 0, y |-> 0, w |-> 2 * s, h |-> 2 * s, used |-> FALSE,
                      kids |-> <<left, Leaf(s, 0, s, 2 * s)>>]
         IN  [ok |-> TRUE,
              page |-> [p EXCEPT !.size = 2 * s,
                                 !.root = IF p.root = <<>> THEN <<>> ELSE <<root>>]]

RECURSIVE UsedRegions(_)
UsedRegions(n) ==
    IF n.kids = <<>> THEN (IF n.used THEN {Region(n)} ELSE {})
    ELSE UsedRegions(n.kids[1]) \cup UsedRegions(n.kids[2])

\* the regions of the allocated nodes of a page
PageNodes(p) == IF p.root = <<>> THEN {} ELSE UsedRegions(p.root[1])

-----------------------------------------------------------------------------
(* The graphics driver: textures and a draw call.  A draw copies the       *)
(* rectangle (sx, sy, w, h) of the source texture to (dx, dy) of the       *)
(* destination, each source pixel becoming kx x ky destination pixels      *)
(* (the nearest filter) with its channels scaled by the color cs, clipped  *)
(* to the destination; mode "copy" replaces the destination pixels, mode   *)
(* "over" keeps them under transparent source pixels (alpha is 0 or 255    *)
(* in this model).                                                         *)

White == <<255, 255, 255, 255>>

\* a quad of the size of its source rectangle, in the colors of the source
Quad(sx, sy, w, h, dx, dy) ==
    [sx |-> sx, sy |-> sy, w |-> w, h |-> h, dx |-> dx, dy |-> dy,
     kx |-> 1, ky |-> 1, cs |-> White]

\* the pixel px with its channels scaled by the color cs
Tint(px, cs) ==
    <<(px[1] * cs[1]) \div 255, (px[2] * cs[2]) \div 255,
      (px[3] * cs[3]) \div 255, (px[4] * cs[4]) \div 255>>

DriverDraw(dstPix, dstW, dstH, srcPix, q, mode) ==
    LET inDst(c) == /\ InRect(c, q.dx, q.dy, q.w * q.kx, q.h * q.ky)
                    /\ InRect(c, 0, 0, dstW, dstH)
        srcOf(c) == <<q.sx + ((c[1] - q.dx) \div q.kx), q.sy + ((c[2] - q.dy) \div q.ky)>>
        srcAt(c) == Tint(srcPix[srcOf(c)], q.cs)
        moved == UNION { { <<q.dx + (d[1] - q.sx) * q.kx + a, q.dy + (d[2] - q.sy) * q.ky + b>> :
                              a \in 0..(q.kx - 1), b \in 0..(q.ky - 1) } :
                         d \in { e \in DOMAIN srcPix : InRect(e, q.sx, q.sy, q.w, q.h) } }
        drawn == { c \in moved : inDst(c) /\ srcAt(c) # ZeroPx }
        kept  == IF mode = "copy" THEN { c \in DOMAIN dstPix : ~inDst(c) }
                                  ELSE DOMAIN dstPix
        over(c) == IF mode = "copy" \/ srcAt(c)[4] # 0 \/ c \notin DOMAIN dstPix
                   THEN srcAt(c) ELSE dstPix[c]
    IN  [c \in kept \cup drawn |-> IF c \in drawn THEN over(c) ELSE dstPix[c]]

\* the texture after uploading p (nil: zeros) to the region (x, y, w, h)
DriverReplacePixels(pix, p, x, y, w, h) ==
    LET idxs == { k \div 4 : k \in DOMAIN p.nz }
        at(i) == <<x + (i % w), y + (i \div w)>>
        new == { at(i) : i \in { j \in idxs : j < w * h } }
        old == { c \in DOMAIN pix : ~InRect(c, x, y, w, h) }
    IN  [c \in old \cup new |->
            IF c \in new THEN PixelOfBytes(p, (c[1] - x) + w * (c[2] - y)) ELSE pix[c]]

-----------------------------------------------------------------------------
(* package restorable: the state one image keeps for restoration.          *)

NewRImage(width, height) ==
    [width |-> width, height |-> height, volatile |-> FALSE, screen |-> FALSE,
     priority |-> FALSE, stale |-> FALSE, hasBase |-> FALSE, base |-> NoPixels,
     hist |-> <<>>, pix |-> NoPixels]

DrawRecord(src, q, mode) ==
    [src |-> src, q |-> q, mode |-> mode, p |-> NilBytes]
PixelsRecord(p, x, y, width, height) ==
    [src |-> 0, q |-> Quad(0, 0, width, height, x, y), mode |-> "pixels", p |-> p]

\* (*Image).makeStale
RMakeStale(r) ==
    [r EXCEPT !.stale = TRUE, !.hasBase = FALSE, !.base = NoPixels, !.hist = <<>>]

\* (*Image).dependingImages
dependingImages(r) == { r.hist[k].src : k \in 1..Len(r.hist) } \ {0}

\* (*Image).makeStaleIfDependingOn
RMakeStaleIfDependingOn(r, target) ==
    IF target \in dependingImages(r) THEN RMakeStale(r) ELSE r

\* (*Image).resolveStale
RResolveStale(r) ==
    IF r.stale /\ ~r.volatile /\ ~r.screen
    THEN [r EXCEPT !.stale = FALSE, !.hasBase = TRUE, !.base = r.pix, !.hist = <<>>]
    ELSE r

needsRestoring(w) == w.forceRestoring \/ w.driver.needsRestoring

\* the pointers the program still holds: none of them is given to a new object
RUsed(w) ==
    UNION { DOMAIN w.rimgs, w.theImages.images, {w.theImages.lastTarget},
            UNION { dependingImages(w.rimgs[r]) : r \in DOMAIN w.rimgs },
            { w.backends[b].restorable : b \in DOMAIN w.backends } }

FreshRImage(w) == Fresh(RUsed(w) \ {0})

add(w, img) == [w EXCEPT !.theImages.images = @ \cup {img}]

\* makeStaleIfDependingOnImpl that returns early whenever lastTarget is set
makeStaleIfDependingOnImplAnyLastTarget(w, target) ==
    IF target = 0
    THEN [w EXCEPT !.panicked = "restorable: target must not be nil at makeStaleIfDependingOnImpl"]
    ELSE IF w.theImages.lastTarget # 0 THEN w
    ELSE [w EXCEPT !.theImages.lastTarget = target,
                   !.rimgs = [r \in DOMAIN w.rimgs |->
                                 IF r \in w.theImages.images
                                 THEN RMakeStaleIfDependingOn(w.rimgs[r], target)
                                 ELSE w.rimgs[r]]]

\* makeStaleIfDependingOnImpl that notes the target and marks no image stale
makeStaleIfDependingOnImplOnlyNotes(w, target) ==
    IF target = 0
    THEN [w EXCEPT !.panicked = "restorable: target must not be nil at makeStaleIfDependingOnImpl"]
    ELSE [w EXCEPT !.theImages.lastTarget = target]

makeStaleIfDependingOnImpl(w, target) ==
    IF target = 0
    THEN [w EXCEPT !.panicked = "restorable: target must not be nil at makeStaleIfDependingOnImpl"]
    ELSE IF w.theImages.lastTarget = target THEN w
    ELSE [w EXCEPT !.theImages.lastTarget = target,
                   !.rimgs = [r \in DOMAIN w.rimgs |->
                                 IF r \in w.theImages.images
                                 THEN RMakeStaleIfDependingOn(w.rimgs[r], target)
                                 ELSE w.rimgs[r]]]

makeStaleIfDependingOn(w, target) == makeStaleIfDependingOnImpl(w, target)

\* remove without the stale marks
removeOnlyDeletes(w, img) == [w EXCEPT !.theImages.images = @ \ {img}]

remove(w, img) ==
    [makeStaleIfDependingOnImpl(w, img) EXCEPT !.theImages.images = @ \ {img}]

\* resolveStaleImages that resolves no image
resolveStaleImagesSkips(w) == [w EXCEPT !.theImages.lastTarget = 0]

resolveStaleImages(w) ==
    [w EXCEPT !.theImages.lastTarget = 0,
              !.rimgs = [r \in DOMAIN w.rimgs |->
                            IF r \in w.theImages.images
                            THEN RResolveStale(w.rimgs[r]) ELSE w.rimgs[r]]]

\* restorable.NewImage
RNewImage(w, id, width, height) ==
    add([w EXCEPT !.rimgs = (id :> NewRImage(width, height)) @@ w.rimgs], id)

\* restorable.NewScreenFramebufferImage
RNewScreenFramebufferImage(w, id, width, height) ==
    add([w EXCEPT !.rimgs = (id :> [NewRImage(width, height) EXCEPT
                                       !.screen = TRUE, !.priority = TRUE]) @@ w.rimgs], id)

\* (*Image).ReplacePixels
RReplacePixels(w, id, p, x, y, width, height) ==
    Let([w1 \in {makeStaleIfDependingOn(w, id)} |->
    Let([r \in {w1.rimgs[id]} |->
    Let([pix \in {DriverReplacePixels(r.pix, p, x, y, width, height)} |->
        IF x = 0 /\ y = 0 /\ width = r.width /\ height = r.height
        THEN [w1 EXCEPT !.rimgs[id] =
                 [r EXCEPT !.pix = pix, !.stale = FALSE, !.hist = <<>>,
                           !.hasBase = (p.len # -1),
                           !.base = IF p.len # -1 THEN pix ELSE NoPixels]]
        ELSE IF r.stale \/ r.volatile \/ r.screen
        THEN [w1 EXCEPT !.rimgs[id] = [RMakeStale(r) EXCEPT !.pix = pix]]
        ELSE [w1 EXCEPT !.rimgs[id] =
                 [r EXCEPT !.pix = pix,
                           !.hist = Append(@, PixelsRecord(p, x, y, width, height))]]])])])

\* (*Image).ClearPixels
RClearPixels(w, id, x, y, width, height) ==
    RReplacePixels(w, id, NilBytes, x, y, width, height)

\* (*Image).DrawTriangles
RDrawTriangles(w, dst, src, q, mode) ==
    Let([w1 \in {makeStaleIfDependingOn(w, dst)} |->
    Let([d \in {w1.rimgs[dst]} |->
    Let([s \in {w1.rimgs[src]} |->
    Let([pix \in {DriverDraw(d.pix, d.width, d.height, s.pix, q, mode)} |->
        IF s.stale \/ s.volatile \/ s.screen \/ d.stale \/ d.volatile \/ d.screen
        THEN [w1 EXCEPT !.rimgs[dst] = [RMakeStale(d) EXCEPT !.pix = pix]]
        ELSE [w1 EXCEPT !.rimgs[dst] =
                 [d EXCEPT !.pix = pix, !.hist = Append(@, DrawRecord(src, q, mode))]]])])])])

\* (*Image).Clear
RClear(w, id) ==
    RReplacePixels(w, id, NilBytes, 0, 0, w.rimgs[id].width, w.rimgs[id].height)

\* (*Image).Dispose
RDispose(w, id) ==
    Let([w1 \in {remove(w, id)} |->
        [w1 EXCEPT !.rimgs = Restrict(w1.rimgs, (DOMAIN w1.rimgs) \ {id})]])

\* (*Image).Extend: a new image of the new size with the pixels and the history
RExtend(w, id, newId, width, height) ==
    RDispose(add([w EXCEPT !.rimgs = (newId :> [w.rimgs[id] EXCEPT !.width = width,
                                                                   !.height = height])
                                        @@ w.rimgs],
                 newId),
             id)

\* (*Image).At
RAt(w, id, x, y) == PixAt(w.rimgs[id].pix, x, y)

\* (*Image).MakeVolatile
RMakeVolatile(w, id) ==
    [w EXCEPT !.rimgs[id] = [@ EXCEPT !.volatile = TRUE, !.hasBase = FALSE,
                                      !.base = NoPixels, !.hist = <<>>]]

\* (*Image).ResetRestoringState
RResetRestoringState(w, id) ==
    [w EXCEPT !.rimgs[id] = [@ EXCEPT !.hasBase = FALSE, !.base = NoPixels,
                                      !.hist = <<>>, !.stale = FALSE]]

\* restorable.EnableRestoringForTesting
EnableRestoringForTesting(w) == [w EXCEPT !.forceRestoring = TRUE]

\* restorable.ResolveStaleImages
ResolveStaleImages(w) == IF ~needsRestoring(w) THEN w ELSE resolveStaleImages(w)

\* graphicscommand.ResetGraphicsDriverState
ResetGraphicsDriverState(w) == [w EXCEPT !.driver.invalidated = FALSE]

RECURSIVE Replay(_, _, _, _)
\* the texture pix of the image r after the records k.. of its history are
\* replayed, the sources being the images of w
Replay(w, r, pix, k) ==
    IF k > Len(r.hist) THEN pix
    ELSE IF r.hist[k].mode = "pixels"
    THEN Replay(w, r,
                DriverReplacePixels(pix, r.hist[k].p, r.hist[k].q.dx, r.hist[k].q.dy,
                                    r.hist[k].q.w, r.hist[k].q.h),
                k + 1)
    ELSE Replay(w, r,
                DriverDraw(pix, r.width, r.height, w.rimgs[r.hist[k].src].pix,
                           r.hist[k].q, r.hist[k].mode),
                k + 1)

\* (*Image).restore: a fresh texture, the base pixels, then the history; the
\* screen and a volatile image get a fresh texture only
RRestore(w, id) ==
    Let([r \in {w.rimgs[id]} |->
        IF r.screen \/ r.volatile
        THEN [w EXCEPT !.rimgs[id] = [r EXCEPT !.pix = NoPixels, !.hasBase = FALSE,
                                               !.base = NoPixels, !.hist = <<>>,
                                               !.stale = FALSE]]
        ELSE IF \E k \in 1..Len(r.hist) : r.hist[k].src \notin (DOMAIN w.rimgs) \cup {0}
        THEN Panic(w, "restorable: the source of a draw is disposed at restore")
        ELSE [w EXCEPT !.rimgs[id].pix =
                 Replay(w, r, IF r.hasBase THEN r.base ELSE NoPixels, 1)]])

\* the elements of the sequence order that are in the set S, in their order
InOrder(order, S) ==
    LET in(e) == e \in S
    IN  SelectSeq(order, in)

\* the edges of restore: the draws the histories of the images in imgs record
restoreEdges(w, imgs) ==
    { e \in [source : RUsed(w), target : imgs] :
         e.source \in dependingImages(w.rimgs[e.target]) }

\* restoreCurrent that ignores the edges
restoreCurrentIgnoresEdges(imgs, edges) == imgs

\* the map current of restore: the images that have no incoming edges
restoreCurrent(imgs, edges) ==
    { i \in imgs : \A e \in edges : e.target # i }

RECURSIVE restoreLayers(_, _, _)
\* the loop of restore that sorts the images that have no priority; a range
\* over a map visits it in the order of the sequence order.  The loop does
\* not end when no image is without an incoming edge: <<0>> stands for that.
restoreLayers(imgs, edges, order) ==
    IF imgs = {} THEN <<>>
    ELSE IF restoreCurrent(imgs, edges) = {} THEN <<0>>
    ELSE InOrder(order, restoreCurrent(imgs, edges))
            \o restoreLayers(imgs \ restoreCurrent(imgs, edges),
                             { e \in edges : e.source \notin restoreCurrent(imgs, edges) },
                             order)

\* the slice sorted of restore
restoreSorted(w, order) ==
    InOrder(order, { i \in w.theImages.images : w.rimgs[i].priority })
       \o restoreLayers({ i \in w.theImages.images : ~w.rimgs[i].priority },
                        restoreEdges(w, { i \in w.theImages.images : ~w.rimgs[i].priority }),
                        order)

RECURSIVE restoreEach(_, _, _)
\* the last loop of restore
restoreEach(w, srt, k) ==
    IF k > Len(srt) \/ w.panicked # "" THEN w
    ELSE restoreEach(RRestore(w, srt[k]), srt, k + 1)

\* (*images).restore
restore(w, order) ==
    IF ~needsRestoring(w)
    THEN Panic(w, "restorable: restore cannot be called when restoring is disabled")
    ELSE
    Let([srt \in {restoreSorted(w, order)} |->
        IF \E k \in 1..Len(srt) : srt[k] = 0
        THEN Panic(w, "restorable: restore does not return")
        ELSE restoreEach(w, srt, 1)])

\* RestoreIfNeeded reaches the call of restore
RestoreRuns(w) ==
    /\ needsRestoring(w)
    /\ \/ w.forceRestoring
       \/ /\ \E i \in w.theImages.images : ~w.rimgs[i].screen
          /\ w.driver.invalidated

\* restorable.RestoreIfNeeded
RestoreIfNeeded(w, order) ==
    IF RestoreRuns(w) THEN restore(ResetGraphicsDriverState(w), order) ELSE w

-----------------------------------------------------------------------------
(* package shareable *)

MaxCountForShare == 10

NewImageStruct(width, height) ==
    [width |-> width, height |-> height, disposed |-> FALSE, backend |-> 0,
     node |-> NoNode, nonUpdatedCount |-> 0, neverShared |-> FALSE]

isShareable(w) == w.minSize > 0 /\ w.maxSize > 0

\* shareable without the test of neverShared
shareableIgnoresNeverShared(w, i) ==
    /\ isShareable(w)
    /\ w.images[i].width <= w.maxSize /\ w.images[i].height <= w.maxSize

\* (*Image).shareable
shareable(w, i) ==
    /\ isShareable(w)
    /\ ~w.images[i].neverShared
    /\ w.images[i].width <= w.maxSize /\ w.images[i].height <= w.maxSize

\* (*Image).isShared
isShared(w, i) == w.images[i].node # NoNode

\* (*Image).region, for an image that has a backend
region(w, i) ==
    IF ~isShared(w, i)
    THEN <<0, 0, w.rimgs[w.backends[w.images[i].backend].restorable].width,
                 w.rimgs[w.backends[w.images[i].backend].restorable].height>>
    ELSE w.images[i].node

FreshBackend(w) ==
    Fresh(((DOMAIN w.backends) \cup { w.images[i].backend : i \in DOMAIN w.images }) \ {0})

RECURSIVE PlanExtensions(_, _, _, _)
\* the number of extensions after which the request fits the page, or -1
PlanExtensions(page, width, height, nExtended) ==
    Let([e \in {PageExtend(page)} |->
        IF ~e.ok THEN -1
        ELSE IF PageAlloc(e.page, width, height).ok THEN nExtended + 1
        ELSE PlanExtensions(e.page, width, height, nExtended + 1)])

RECURSIVE ExtendTimes(_, _)
ExtendTimes(page, n) == IF n = 0 THEN page ELSE ExtendTimes(PageExtend(page).page, n - 1)

\* TryAlloc without the extension of the texture
TryAllocKeepsTexture(w, b, width, height) ==
    Let([a \in {PageAlloc(w.backends[b].page, width, height)} |->
    IF a.ok
    THEN [ok |-> TRUE, w |-> [w EXCEPT !.backends[b].page = a.page], n |-> a.r]
    ELSE
    Let([nExtended \in {PlanExtensions(w.backends[b].page, width, height, 0)} |->
    IF nExtended = -1 THEN [ok |-> FALSE, w |-> w, n |-> NoNode]
    ELSE
    Let([a2 \in {PageAlloc(ExtendTimes(w.backends[b].page, nExtended), width, height)} |->
        [ok |-> TRUE, w |-> [w EXCEPT !.backends[b].page = a2.page], n |-> a2.r]])])])

\* (*backend).TryAlloc: [ok, w, n]
TryAlloc(w, b, width, height) ==
    Let([a \in {PageAlloc(w.backends[b].page, width, height)} |->
    IF a.ok
    THEN [ok |-> TRUE, w |-> [w EXCEPT !.backends[b].page = a.page], n |-> a.r]
    ELSE
    Let([nExtended \in {PlanExtensions(w.backends[b].page, width, height, 0)} |->
    IF nExtended = -1 THEN [ok |-> FALSE, w |-> w, n |-> NoNode]
    ELSE
    Let([page \in {ExtendTimes(w.backends[b].page, nExtended)} |->
    Let([newR \in {FreshRImage(w)} |->
    Let([a2 \in {PageAlloc(page, width, height)} |->
    Let([w2 \in {[RExtend(w, w.backends[b].restorable, newR, page.size, page.size) EXCEPT
            !.backends[b] = [restorable |-> newR, page |-> a2.page]]} |->
    IF ~a2.ok
    THEN [ok |-> TRUE, n |-> NoNode,
          w |-> Panic(w2, "shareable: Alloc result must not be nil at TryAlloc")]
    ELSE [ok |-> TRUE, w |-> w2, n |-> a2.r]])])])])])])

RECURSIVE AtlasSize(_, _, _, _)
\* the side of a new atlas for an image, or -1 for the panic "too big"
AtlasSize(size, max, width, height) ==
    IF width > size \/ height > size
    THEN IF size = max THEN -1 ELSE AtlasSize(size * 2, max, width, height)
    ELSE size

RECURSIVE AllocInBackends(_, _, _)
\* the loop of allocate over theBackends from index k: [ok, w, n, b]
AllocInBackends(w, i, k) ==
    IF k > Len(w.theBackends) THEN [ok |-> FALSE, w |-> w, n |-> NoNode, b |-> 0]
    ELSE Let([t \in {TryAlloc(w, w.theBackends[k], w.images[i].width, w.images[i].height)} |->
                 IF t.ok THEN [ok |-> TRUE, w |-> t.w, n |-> t.n, b |-> w.theBackends[k]]
                 ELSE AllocInBackends(w, i, k + 1)])

\* (*Image).allocate
allocate(w, i, asShareable) ==
    IF w.images[i].backend # 0
    THEN Panic(w, "shareable: the image is already allocated")
    ELSE
    Let([newR \in {FreshRImage(w)} |->
    Let([newB \in {FreshBackend(w)} |->
    IF ~asShareable \/ ~shareable(w, i)
    THEN [RNewImage(w, newR, w.images[i].width, w.images[i].height) EXCEPT
             !.backends = (newB :> [restorable |-> newR, page |-> NoPage]) @@ w.backends,
             !.images[i].backend = newB]
    ELSE
    Let([found \in {AllocInBackends(w, i, 1)} |->
    IF found.ok
    THEN Let([v \in {found.w} |-> Then(v,
             [v EXCEPT !.images[i].backend = found.b, !.images[i].node = found.n])])
    ELSE
    Let([size \in {AtlasSize(w.minSize, w.maxSize, w.images[i].width, w.images[i].height)} |->
    IF size = -1
    THEN Panic(w, "shareable: the image being shared is too big")
    ELSE
    Let([a \in {PageAlloc(NewPage(size, w.maxSize), w.images[i].width, w.images[i].height)} |->
    Let([w1 \in {[RNewImage(w, newR, size, size) EXCEPT
            !.backends = (newB :> [restorable |-> newR, page |-> a.page]) @@ w.backends,
            !.theBackends = Append(w.theBackends, newB)]} |->
    IF ~a.ok
    THEN Panic(w1, "shareable: Alloc result must not be nil at allocate")
    ELSE [w1 EXCEPT !.images[i].backend = newB, !.images[i].node = a.r]])])])])])])

RemoveAt(s, k) == SubSeq(s, 1, k - 1) \o SubSeq(s, k + 1, Len(s))

\* the index of the first element of s equal to e, or -1
IndexOf(s, e) ==
    IF \E k \in 1..Len(s) : s[k] = e
    THEN CHOOSE k \in 1..Len(s) : s[k] = e /\ \A l \in 1..(k - 1) : s[l] # e
    ELSE -1

\* disposeDeferred without the reset of the node
disposeDeferredKeepsNode(w, i, markDisposed) ==
    [w EXCEPT !.images[i].disposed = IF markDisposed THEN TRUE ELSE @,
              !.images[i].backend = 0]

\* the function dispose defers: it runs on every exit of dispose
disposeDeferred(w, i, markDisposed) ==
    [w EXCEPT !.images[i].disposed = IF markDisposed THEN TRUE ELSE @,
              !.images[i].backend = 0,
              !.images[i].node = NoNode]

\* (*Image).dispose
dispose(w, i, markDisposed) ==
    Let([v \in {IF w.images[i].disposed \/ w.images[i].backend = 0 THEN w
        ELSE IF ~isShared(w, i)
        THEN RDispose(w, w.backends[w.images[i].backend].restorable)
        ELSE
        Let([b \in {w.images[i].backend} |->
        Let([n \in {w.images[i].node} |->
        Let([freed \in {[w EXCEPT !.backends[b].page = PageFree(@, n)]} |->
        IF ~PageIsEmpty(freed.backends[b].page)
        THEN RClearPixels(freed, freed.backends[b].restorable, n[1], n[2], n[3], n[4])
        ELSE
        Let([gone \in {RDispose(freed, freed.backends[b].restorable)} |->
        IF IndexOf(w.theBackends, b) = -1
        THEN Panic(gone, "shareable: backend not found at an image being disposed")
        ELSE [gone EXCEPT !.theBackends = RemoveAt(@, IndexOf(w.theBackends, b))]])])])])} |-> disposeDeferred(v, i, markDisposed)])

\* PutVertex without the origin of the region
PutVertexAtOrigin(w, i) ==
    Let([w1 \in {IF w.images[i].backend = 0 THEN allocate(w, i, TRUE) ELSE w} |->
        IF w1.panicked # "" THEN [w |-> w1, q |-> Quad(0, 0, 0, 0, 0, 0)]
        ELSE [w |-> w1,
              q |-> Quad(0, 0, w1.images[i].width, w1.images[i].height, 0, 0)]])

\* (*Image).PutVertex, for the vertices of the quad (0, 0)-(width, height) drawn
\* at (0, 0): the source coordinates are moved by the origin of the region.
\* [w, q]: the world afterwards and the quad the vertices describe
PutVertex(w, i) ==
    Let([w1 \in {IF w.images[i].backend = 0 THEN allocate(w, i, TRUE) ELSE w} |->
        IF w1.panicked # "" THEN [w |-> w1, q |-> Quad(0, 0, 0, 0, 0, 0)]
        ELSE [w |-> w1,
              q |-> Quad(region(w1, i)[1], region(w1, i)[2],
                         w1.images[i].width, w1.images[i].height, 0, 0)]])

\* ensureNotShared with a shareable allocation of an image without a backend
ensureNotSharedAllocatesShared(w, i) ==
    IF w.images[i].backend = 0 THEN allocate(w, i, TRUE)
    ELSE IF ~isShared(w, i) THEN w
    ELSE
    Let([reg \in {region(w, i)} |->
    Let([newImg \in {FreshRImage(w)} |->
    Let([vs \in {PutVertex(RNewImage(w, newImg, reg[3], reg[4]), i)} |->
    Let([w2 \in {RDrawTriangles(vs.w, newImg, vs.w.backends[vs.w.images[i].backend].restorable,
                       [vs.q EXCEPT !.w = reg[3], !.h = reg[4]], "copy")} |->
    Let([w3 \in {dispose(w2, i, FALSE)} |-> Then(w3,
    Let([newB \in {FreshBackend(w3)} |->
        [w3 EXCEPT
            !.backends = (newB :> [restorable |-> newImg, page |-> NoPage]) @@ w3.backends,
            !.images[i].backend = newB]]))])])])])])

\* (*Image).ensureNotShared
ensureNotShared(w, i) ==
    IF w.images[i].backend = 0 THEN allocate(w, i, FALSE)
    ELSE IF ~isShared(w, i) THEN w
    ELSE
    Let([reg \in {region(w, i)} |->
    Let([newImg \in {FreshRImage(w)} |->
    Let([vs \in {PutVertex(RNewImage(w, newImg, reg[3], reg[4]), i)} |->
    Let([w2 \in {RDrawTriangles(vs.w, newImg, vs.w.backends[vs.w.images[i].backend].restorable,
                       [vs.q EXCEPT !.w = reg[3], !.h = reg[4]], "copy")} |->
    Let([w3 \in {dispose(w2, i, FALSE)} |-> Then(w3,
    Let([newB \in {FreshBackend(w3)} |->
        [w3 EXCEPT
            !.backends = (newB :> [restorable |-> newImg, page |-> NoPage]) @@ w3.backends,
            !.images[i].backend = newB]]))])])])])])

\* (*Image).at
at(w, i, x, y) ==
    IF w.images[i].backend = 0 THEN ZeroPx
    ELSE IF x < 0 \/ y < 0 \/ x >= region(w, i)[3] \/ y >= region(w, i)[4] THEN ZeroPx
    ELSE RAt(w, w.backends[w.images[i].backend].restorable,
             x + region(w, i)[1], y + region(w, i)[2])

\* (*Image).replacePixels
replacePixels(w, i, p) ==
    IF w.images[i].disposed
    THEN Panic(w, "shareable: the image must not be disposed at replacePixels")
    ELSE IF w.images[i].backend = 0 /\ p.len = -1 THEN w
    ELSE
    Let([w1 \in {IF w.images[i].backend = 0 THEN allocate(w, i, TRUE) ELSE w} |-> Then(w1,
    Let([reg \in {region(w1, i)} |->
        IF p.len # -1 /\ p.len # 4 * reg[3] * reg[4]
        THEN Panic(w1, "shareable: len(p) must be 4*w*h")
        ELSE RReplacePixels(w1, w1.backends[w1.images[i].backend].restorable, p,
                            reg[1], reg[2], reg[3], reg[4])]))])

\* the loop of makeShared that reads the image into a byte slice: the bytes
\* 4*(x+width*y) .. +3 are at(x, y), for every x < width and y < height
ReadPixels(w, i) ==
    Let([width \in {w.images[i].width} |->
    Let([reg \in {region(w, i)} |->
    Let([cs \in {{ c \in DOMAIN w.rimgs[w.backends[w.images[i].backend].restorable].pix :
             /\ InRect(c, reg[1], reg[2], reg[3], reg[4])
             /\ c[1] - reg[1] < width /\ c[2] - reg[2] < w.images[i].height }} |->
        BytesOfPixels(4 * width * w.images[i].height,
                      [k \in { (c[1] - reg[1]) + width * (c[2] - reg[2]) : c \in cs } |->
                          at(w, i, k % width, k \div width)])])])])

\* moveTo without runtime.SetFinalizer(i, nil): the receiver stays an image
\* the finalizer goroutine may call Dispose on
moveToKeepsFinalizer(w, dst) ==
    Let([w1 \in {dispose(w, dst, FALSE)} |->
        [w1 EXCEPT !.images =
            [k \in ((DOMAIN w1.images) \ {0}) \cup {Fresh((DOMAIN w1.images) \ {0})} |->
                IF k \in {dst, Fresh((DOMAIN w1.images) \ {0})}
                THEN w1.images[0] ELSE w1.images[k]]]])

\* (*Image).moveTo, the receiver being the temporary handle 0
moveTo(w, dst) ==
    Let([w1 \in {dispose(w, dst, FALSE)} |->
        [w1 EXCEPT !.images = [k \in (DOMAIN w1.images) \ {0} |->
                                  IF k = dst THEN w1.images[0] ELSE w1.images[k]]]])

\* (*Image).makeShared
makeShared(w, i) ==
    IF w.images[i].backend = 0 THEN allocate(w, i, TRUE)
    ELSE IF isShared(w, i) THEN w
    ELSE IF ~shareable(w, i)
    THEN Panic(w, "shareable: makeShared cannot be called on a non-shareable image")
    ELSE
    Let([w2 \in {replacePixels([w EXCEPT !.images = (0 :> NewImageStruct(w.images[i].width,
                                                                w.images[i].height))
                                            @@ w.images],
                      0, ReadPixels(w, i))} |->
    IF w2.panicked # "" THEN [w2 EXCEPT !.images = Restrict(@, DOMAIN w.images)]
    ELSE Let([w3 \in {moveTo(w2, i)} |-> Then(w3, [w3 EXCEPT !.images[i].nonUpdatedCount = 0])])])

\* countFrame with > for >=
countFrameLate(w, i) ==
    Let([w1 \in {[w EXCEPT !.images[i].nonUpdatedCount = @ + 1]} |->
        IF w1.images[i].nonUpdatedCount > MaxCountForShare
        THEN makeShared(w1, i) ELSE w1])

\* the body of the loop of makeImagesShared, up to the delete
countFrame(w, i) ==
    Let([w1 \in {[w EXCEPT !.images[i].nonUpdatedCount = @ + 1]} |->
        IF w1.images[i].nonUpdatedCount >= MaxCountForShare
        THEN makeShared(w1, i) ELSE w1])

RECURSIVE makeImagesSharedIn(_, _)
\* makeImagesShared, the map being ranged over in the order of the sequence
makeImagesSharedIn(w, order) ==
    IF order = <<>> \/ w.panicked # "" THEN w
    ELSE
    Let([w2 \in {countFrame(w, Head(order))} |-> Then(w2,
    makeImagesSharedIn([w2 EXCEPT !.imagesToMakeShared = @ \ {Head(order)}],
                       Tail(order)))])

\* the orders in which a range over the set S may visit it
Orders(S) ==
    { o \in [1..Cardinality(S) -> S] : \A a, b \in 1..Cardinality(S) : a # b => o[a] # o[b] }

\* the function given to hooks.AppendHookOnBeforeUpdate in init
BeforeUpdateHook(w, order) ==
    Let([w1 \in {IF w.onceDone THEN w
         ELSE IF Len(w.theBackends) # 0
         THEN Panic([w EXCEPT !.onceDone = TRUE],
                "shareable: all the images must be not-shared before the game starts")
         ELSE IF w.driver.hasHighPrecisionFloat
         THEN [w EXCEPT !.onceDone = TRUE, !.minSize = 1024,
                        !.maxSize = Min(4096, w.driver.maxImageSize)]
         ELSE [w EXCEPT !.onceDone = TRUE, !.minSize = 512, !.maxSize = 512]} |-> Then(w1, makeImagesSharedIn(w1, order))])

\* markDrawn without the removal of the target from imagesToMakeShared
markDrawnKeepsCandidate(w, i, img) ==
    Let([w1 \in {[w EXCEPT !.images[i].nonUpdatedCount = 0]} |->
        IF ~isShared(w1, img) /\ shareable(w1, img)
        THEN [w1 EXCEPT !.imagesToMakeShared = @ \cup {img}]
        ELSE w1])

\* the end of DrawTriangles: the target i is updated, the source img becomes
\* a candidate for sharing
markDrawn(w, i, img) ==
    Let([w1 \in {[w EXCEPT !.images[i].nonUpdatedCount = 0,
                  !.imagesToMakeShared = @ \ {i}]} |->
        IF ~isShared(w1, img) /\ shareable(w1, img)
        THEN [w1 EXCEPT !.imagesToMakeShared = @ \cup {img}]
        ELSE w1])

\* (*Image).DrawTriangles, the vertices being those of q
DrawTriangles(w, i, img, q, mode) ==
    IF w.images[img].disposed
    THEN Panic(w, "shareable: the drawing source image must not be disposed (DrawTriangles)")
    ELSE IF w.images[i].disposed
    THEN Panic(w, "shareable: the drawing target image must not be disposed (DrawTriangles)")
    ELSE
    Let([w1 \in {IF w.images[img].backend = 0 THEN allocate(w, img, TRUE) ELSE w} |-> Then(w1,
    Let([w2 \in {ensureNotShared(w1, i)} |-> Then(w2,
    Let([dR \in {w2.backends[w2.images[i].backend].restorable} |->
    Let([sR \in {w2.backends[w2.images[img].backend].restorable} |->
    IF dR = sR
    THEN Panic(w2, "shareable: Image.DrawTriangles: img must be different from the receiver")
    ELSE
    markDrawn(RDrawTriangles(w2, dR, sR, q, mode), i, img)])]))]))])

\* (*Image).ClearFramebuffer
ClearFramebuffer(w, i) ==
    IF w.images[i].disposed
    THEN Panic(w, "shareable: the drawing target image must not be disposed (Fill)")
    ELSE Let([w1 \in {ensureNotShared(w, i)} |-> Then(w1,
             RClear(w1, w1.backends[w1.images[i].backend].restorable))])

\* (*Image).MakeVolatile
MakeVolatile(w, i) ==
    Let([w1 \in {ensureNotShared(w, i)} |-> Then(w1,
        [RMakeVolatile(w1, w1.backends[w1.images[i].backend].restorable) EXCEPT
            !.images[i].neverShared = TRUE])])

\* shareable.NewScreenFramebufferImage, the new handle being i
NewScreenFramebufferImage(w, i, width, height) ==
    Let([r \in {FreshRImage(w)} |->
    Let([b \in {FreshBackend(w)} |->
        [RNewScreenFramebufferImage(w, r, width, height) EXCEPT
            !.backends = (b :> [restorable |-> r, page |-> NoPage]) @@ w.backends,
            !.images = (i :> [NewImageStruct(width, height) EXCEPT
                                 !.backend = b, !.neverShared = TRUE]) @@ w.images]])])

\* shareable.NewImage, the new handle being i
NewImage(w, i, width, height) ==
    [w EXCEPT !.images = (i :> NewImageStruct(width, height)) @@ w.images]

-----------------------------------------------------------------------------
(* package ebiten: the public Image.  The program variables are those of    *)
(* package shareable and package restorable and, in addition, the fields    *)
(* ebitenImages (the Image structs by pointer), mipmaps (the mipmap structs *)
(* by pointer) and isRunning.  A color is an 8-bit alpha-premultiplied RGBA *)
(* tuple (color.RGBA); a rectangle is <<Min.X, Min.Y, Max.X, Max.Y>>.       *)

\* image.ZR
ZR == <<0, 0, 0, 0>>

\* image.Rectangle: Empty, Intersect, Dx, Dy, and image.Point.In
Empty(r) == r[1] >= r[3] \/ r[2] >= r[4]

Intersect(r, s) ==
    Let([t \in {<<Max(r[1], s[1]), Max(r[2], s[2]), Min(r[3], s[3]), Min(r[4], s[4])>>} |->
        IF Empty(t) THEN ZR ELSE t])

Dx(r) == r[3] - r[1]
Dy(r) == r[4] - r[2]

PtIn(x, y, r) == r[1] <= x /\ x < r[3] /\ r[2] <= y /\ y < r[4]

\* color.RGBA.RGBA: the 16-bit channels of a color
RGBA16(clr) == <<clr[1] * 257, clr[2] * 257, clr[3] * 257, clr[4] * 257>>

\* p with p[k] = v
SetByte(p, k, v) ==
    [p EXCEPT !.nz = IF v = 0 THEN Restrict(p.nz, (DOMAIN p.nz) \ {k})
                     ELSE Override(p.nz, (k :> v))]

\* shareable: (*Image).ResetRestoringState
ResetRestoringState(w, s) ==
    IF w.images[s].backend = 0 THEN w
    ELSE RResetRestoringState(w, w.backends[w.images[s].backend].restorable)

\* the struct Image of package ebiten
EbitenImage(i, m, filter) ==
    [addr |-> i, mipmap |-> m, bounds |-> ZR, original |-> 0,
     pendingPixels |-> NilBytes, filter |-> filter]

\* the mipmap set: the level-0 image and the images of the other levels, by
\* <<rectangle, level>>
NoLevels == [k \in {} |-> 0]

newMipmap(s) == [orig |-> s, levels |-> NoLevels]

copyCheck(f, i) ==
    IF f.ebitenImages[i].addr # i
    THEN Panic(f, "ebiten: illegal use of non-zero Image copied by value")
    ELSE f

\* (*mipmap).isDisposed and (*Image).isDisposed
isDisposed(f, i) == f.mipmaps[f.ebitenImages[i].mipmap].orig = 0

isSubImage(f, i) == f.ebitenImages[i].original # 0

\* (*mipmap).original, for the mipmap of the image i
original(f, i) == f.mipmaps[f.ebitenImages[i].mipmap].orig

\* (*Image).Bounds, for an image that is not disposed
Bounds(f, i) ==
    IF ~isSubImage(f, i)
    THEN <<0, 0, f.images[original(f, i)].width, f.images[original(f, i)].height>>
    ELSE f.ebitenImages[i].bounds

RECURSIVE mipmapDisposeLevels(_, _, _)
\* the images of the keys ks of the mipmap m are disposed
mipmapDisposeLevels(f, m, ks) ==
    IF ks = {} THEN f
    ELSE Let([k \in {CHOOSE k \in ks : \A l \in ks : k[2] >= l[2]} |->
             mipmapDisposeLevels(dispose(f, f.mipmaps[m].levels[k], TRUE), m, ks \ {k})])

\* (*mipmap).disposeMipmaps
mipmapDisposeMipmaps(f, m) ==
    [mipmapDisposeLevels(f, m, DOMAIN f.mipmaps[m].levels) EXCEPT
        !.mipmaps[m].levels = NoLevels]

\* (*mipmap).dispose
mipmapDispose(f, m) ==
    Let([f1 \in {mipmapDisposeMipmaps(f, m)} |->
        [dispose(f1, f1.mipmaps[m].orig, TRUE) EXCEPT !.mipmaps[m].orig = 0]])

\* (*Image).disposeMipmaps
disposeMipmaps(f, i) ==
    IF isDisposed(f, i)
    THEN Panic(f, "ebiten: the image is already disposed at disposeMipmap")
    ELSE mipmapDisposeMipmaps(f, f.ebitenImages[i].mipmap)

\* the root image of i: i.original for a sub-image
Root(f, i) == IF isSubImage(f, i) THEN f.ebitenImages[i].original ELSE i

RECURSIVE EReplacePixels(_, _, _)

\* resolvePendingPixels that drops the pending pixels whatever draw is
resolvePendingPixelsDiscards(f, i, draw) ==
    [f EXCEPT !.ebitenImages[Root(f, i)].pendingPixels = NilBytes]

\* (*Image).resolvePendingPixels
resolvePendingPixels(f, i, draw) ==
    Let([r \in {Root(f, i)} |->
        IF f.ebitenImages[r].pendingPixels.len = -1 THEN f
        ELSE IF ~draw THEN [f EXCEPT !.ebitenImages[r].pendingPixels = NilBytes]
        ELSE Let([f1 \in {EReplacePixels(f, r, f.ebitenImages[r].pendingPixels)} |-> Then(f1,
                 [f1 EXCEPT !.ebitenImages[r].pendingPixels = NilBytes])])])

\* ReplacePixels without the call of resolvePendingPixels
EReplacePixelsKeepsPending(f, i, p) ==
    Let([f0 \in {copyCheck(f, i)} |-> Then(f0,
    IF isDisposed(f0, i) THEN f0
    ELSE IF isSubImage(f0, i)
    THEN Panic(f0, "ebiten: render to a subimage is not implemented (ReplacePixels)")
    ELSE IF p.len # 4 * Dx(Bounds(f0, i)) * Dy(Bounds(f0, i))
    THEN Panic(f0, "ebiten: len(p) was %d but must be %d")
    ELSE Let([f2 \in {replacePixels(f0, original(f0, i), p)} |-> Then(f2, disposeMipmaps(f2, i))]))])

\* (*Image).ReplacePixels of package ebiten
EReplacePixels(f, i, p) ==
    Let([f0 \in {copyCheck(f, i)} |-> Then(f0,
    IF isDisposed(f0, i) THEN f0
    ELSE IF isSubImage(f0, i)
    THEN Panic(f0, "ebiten: render to a subimage is not implemented (ReplacePixels)")
    ELSE
    Let([f1 \in {resolvePendingPixels(f0, i, FALSE)} |->
    IF p.len # 4 * Dx(Bounds(f1, i)) * Dy(Bounds(f1, i))
    THEN Panic(f1, "ebiten: len(p) was %d but must be %d")
    ELSE Let([f2 \in {replacePixels(f1, original(f1, i), p)} |-> Then(f2, disposeMipmaps(f2, i))])]))])

\* the loop of Set that reads the image s of package shareable with At: the
\* bytes 4*(x+y*w) .. +3 are At(x, y)
AtAll(w, s) ==
    IF w.images[s].backend = 0
    THEN MakeBytes(4 * w.images[s].width * w.images[s].height)
    ELSE ReadPixels(w, s)

\* the four assignments that end Set: an index out of the range of the slice
\* is a run-time panic
SetPending(f, r, idx, c16) ==
    IF idx < 0 \/ idx + 3 >= f.ebitenImages[r].pendingPixels.len
    THEN Panic(f, "runtime error: index out of range")
    ELSE [f EXCEPT !.ebitenImages[r].pendingPixels =
             SetByte(SetByte(SetByte(SetByte(@, idx, (c16[1] \div 256) % 256),
                                     idx + 1, (c16[2] \div 256) % 256),
                             idx + 2, (c16[3] \div 256) % 256),
                     idx + 3, (c16[4] \div 256) % 256)]

\* (*Image).Set
ESet(f, i, x, y, clr) ==
    IF ~f.isRunning
    THEN Panic(f, "ebiten: (*Image).Set is not available outside the main loop so far")
    ELSE
    Let([f0 \in {copyCheck(f, i)} |-> Then(f0,
    IF isDisposed(f0, i) THEN f0
    ELSE IF isSubImage(f0, i) /\ ~PtIn(x, y, f0.ebitenImages[i].bounds) THEN f0
    ELSE
    Let([r \in {Root(f0, i)} |->
    Let([f1 \in {IF f0.ebitenImages[r].pendingPixels.len # -1 THEN f0
        ELSE [f0 EXCEPT !.ebitenImages[r].pendingPixels = AtAll(f0, original(f0, r))]} |->
        SetPending(f1, r, 4 * (x + y * Dx(Bounds(f1, r))), RGBA16(clr))])]))])

\* At that takes the coordinates of a sub-image relative to its bounds
EAtRelative(f, i, x, y) ==
    IF ~f.isRunning
    THEN [f |-> Panic(f, "ebiten: (*Image).At is not available outside the main loop so far"),
          c |-> ZeroPx]
    ELSE IF isDisposed(f, i) THEN [f |-> f, c |-> ZeroPx]
    ELSE
    Let([b \in {Bounds(f, i)} |->
    IF ~PtIn(x + b[1], y + b[2], b) THEN [f |-> f, c |-> ZeroPx]
    ELSE
    Let([f1 \in {resolvePendingPixels(f, i, TRUE)} |->
        IF f1.panicked # "" THEN [f |-> f1, c |-> ZeroPx]
        ELSE [f |-> f1, c |-> at(f1, original(f1, i), x + b[1], y + b[2])]])])

\* (*Image).At: [f, c], the program variables afterwards and the color
EAt(f, i, x, y) ==
    IF ~f.isRunning
    THEN [f |-> Panic(f, "ebiten: (*Image).At is not available outside the main loop so far"),
          c |-> ZeroPx]
    ELSE IF isDisposed(f, i) THEN [f |-> f, c |-> ZeroPx]
    ELSE IF isSubImage(f, i) /\ ~PtIn(x, y, f.ebitenImages[i].bounds)
    THEN [f |-> f, c |-> ZeroPx]
    ELSE
    Let([f1 \in {resolvePendingPixels(f, i, TRUE)} |->
        IF f1.panicked # "" THEN [f |-> f1, c |-> ZeroPx]
        ELSE [f |-> f1, c |-> at(f1, original(f1, i), x, y)]])

\* (*Image).Dispose of package ebiten
EDispose(f, i) ==
    Let([f0 \in {copyCheck(f, i)} |-> Then(f0,
    IF isDisposed(f0, i) THEN f0
    ELSE IF isSubImage(f0, i) THEN f0
    ELSE Let([f1 \in {mipmapDispose(f0, f0.ebitenImages[i].mipmap)} |-> Then(f1,
             resolvePendingPixels(f1, i, FALSE))]))])

\* (*Image).SubImage, the new pointer being h; nil is returned, and no image
\* is made, when the image is disposed
ESubImage(f, i, r, h) ==
    Let([f0 \in {copyCheck(f, i)} |-> Then(f0,
    IF isDisposed(f0, i) THEN f0
    ELSE [f0 EXCEPT !.ebitenImages =
             (h :> [EbitenImage(h, f0.ebitenImages[i].mipmap, f0.ebitenImages[i].filter)
                       EXCEPT !.original = Root(f0, i),
                              !.bounds = Intersect(r, Bounds(f0, i))]) @@ @])])

\* the variable MaxImageSize of package ebiten
MaxImageSize == 4096

\* NewImage of package ebiten, the new pointer being h
ENewImage(f, h, width, height, filter) ==
    Let([s \in {Fresh((DOMAIN f.images) \ {0})} |->
    Let([m \in {Fresh(DOMAIN f.mipmaps)} |->
        [NewImage(f, s, width, height) EXCEPT
            !.mipmaps = (m :> newMipmap(s)) @@ @,
            !.ebitenImages = (h :> EbitenImage(h, m, filter)) @@ @]])])

\* newImageWithScreenFramebuffer, the new pointer being h
newImageWithScreenFramebuffer(f, h, width, height) ==
    Let([s \in {Fresh((DOMAIN f.images) \ {0})} |->
    Let([m \in {Fresh(DOMAIN f.mipmaps)} |->
        [NewScreenFramebufferImage(f, s, width, height) EXCEPT
            !.mipmaps = (m :> newMipmap(s)) @@ @,
            !.ebitenImages = (h :> EbitenImage(h, m, "default")) @@ @]])])

\* The geometry matrix of the options: the elements (a, b, c, d, tx, ty), or
\* nan when an element is not a number.  The draws of this model have the
\* matrices whose a and d are positive integers and whose b and c are 0.
GeoM(a, b, c, d, tx, ty) ==
    [a |-> a, b |-> b, c |-> c, d |-> d, tx |-> tx, ty |-> ty, nan |-> FALSE]

\* (*GeoM).Scale
GeoMScale(g, x, y) ==
    [g EXCEPT !.a = @ * x, !.b = @ * x, !.tx = @ * x,
              !.c = @ * y, !.d = @ * y, !.ty = @ * y]

\* (*GeoM).det, for a matrix whose elements are numbers
det(g) == g.a * g.d - g.b * g.c

\* &DrawImageOptions{}
DefaultOptions ==
    [GeoM |-> GeoM(1, 0, 0, 1, 0, 0), ColorM |-> White, CompositeMode |-> "over",
     Filter |-> "default", SourceRect |-> <<>>]

RECURSIVE Pow2(_)
Pow2(n) == IF n <= 0 THEN 1 ELSE 2 * Pow2(n - 1)

RECURSIVE CeilLog2(_, _)
\* the least n >= from with 2^n >= k
CeilLog2(k, from) == IF Pow2(from) >= k THEN from ELSE CeilLog2(k, from + 1)

\* (*mipmap).mipmapLevel, for a scale that is a positive integer: the floor of
\* log2(1/scale) within [-6, 6] for the linear filter, 0 for the others
mipmapLevel(g, width, height, filter) ==
    IF filter # "linear" THEN 0 ELSE Max(-6, -CeilLog2(Max(g.a, g.d), 0))

RECURSIVE adjustLevel(_, _, _)
\* the loop of DrawImage that lowers a positive level while the image would
\* be scaled into the size 0
adjustLevel(level, width, height) ==
    IF level < 0 THEN level
    ELSE IF width \div Pow2(level) = 0 \/ height \div Pow2(level) = 0
    THEN adjustLevel(level - 1, width, height)
    ELSE level

\* graphics.PutQuadVertices: the four vertices of the rectangle (x0, y0)-(x1, y1)
\* of the image src of package shareable, each written by src.PutVertex, for
\* the matrix g and the color scale cs.  [w, q]
PutQuadVertices(f, src, x0, y0, x1, y1, g, cs) ==
    Let([vs \in {PutVertex(f, src)} |->
        [w |-> vs.w,
         q |-> [sx |-> vs.q.sx + x0, sy |-> vs.q.sy + y0,
                w |-> Max(x1 - x0, 0), h |-> Max(y1 - y0, 0),
                dx |-> g.tx, dy |-> g.ty, kx |-> g.a, ky |-> g.d, cs |-> cs]]])

RECURSIVE mipmapLevelImage(_, _, _, _)
\* (*mipmap).level: [f, s], s being the image of the level, made when the
\* mipmap does not have it by a draw from the level above it (a level below
\* 0 is the image of the next level at twice its size), or 0 (nil)
mipmapLevelImage(f, m, bounds, level) ==
    IF <<bounds, level>> \in DOMAIN f.mipmaps[m].levels
    THEN [f |-> f, s |-> f.mipmaps[m].levels[<<bounds, level>>]]
    ELSE IF level >= 0 THEN [f |-> f, s |-> 0]
    ELSE
    Let([up \in {IF level = -1 THEN [f |-> f, s |-> f.mipmaps[m].orig]
        ELSE mipmapLevelImage(f, m, bounds, level + 1)} |->
    IF up.f.panicked # "" \/ up.s = 0 THEN [f |-> up.f, s |-> 0]
    ELSE
    Let([r \in {IF level = -1 THEN bounds
        ELSE <<0, 0, up.f.images[up.s].width, up.f.images[up.s].height>>} |->
    Let([s \in {Fresh((DOMAIN up.f.images) \ {0})} |->
    Let([vs \in {PutQuadVertices(NewImage(up.f, s, 2 * Dx(r), 2 * Dy(r)), up.s,
                        r[1], r[2], r[3], r[4], GeoM(2, 0, 0, 2, 0, 0), White)} |->
    IF vs.w.panicked # "" THEN [f |-> vs.w, s |-> 0]
    ELSE
    Let([f1 \in {DrawTriangles(vs.w, s, up.s, vs.q, "copy")} |->
        [f |-> IF f1.panicked # "" THEN f1
               ELSE [f1 EXCEPT !.mipmaps[m].levels = (<<bounds, level>> :> s) @@ @],
         s |-> s]])])])])])

\* the end of DrawImage: the draw of the level of the source and the disposal
\* of the mipmaps of the target
drawLevel(f, i, img, bounds, level, g, cs, mode) ==
    Let([f2 \in {IF level = 0
         THEN Let([vs \in {PutQuadVertices(f, original(f, img), bounds[1], bounds[2],
                                  bounds[3], bounds[4], g, cs)} |->
                  Let([f1 \in {vs.w} |-> Then(f1,
                      DrawTriangles(f1, original(f1, i), original(f1, img), vs.q, mode))])])
         ELSE Let([lv \in {mipmapLevelImage(f, f.ebitenImages[img].mipmap, bounds, level)} |->
                  IF lv.f.panicked # "" \/ lv.s = 0 THEN lv.f
                  ELSE Let([vs \in {PutQuadVertices(lv.f, lv.s, 0, 0, lv.f.images[lv.s].width,
                                           lv.f.images[lv.s].height,
                                           [g EXCEPT !.a = IF level < 0 THEN @ \div Pow2(-level)
                                                           ELSE @ * Pow2(level),
                                                     !.d = IF level < 0 THEN @ \div Pow2(-level)
                                                           ELSE @ * Pow2(level)],
                                           cs)} |->
                           Let([f1 \in {vs.w} |-> Then(f1,
                               DrawTriangles(f1, original(f1, i), lv.s, vs.q, mode))])])])} |-> Then(f2, disposeMipmaps(f2, i))])

\* DrawImage without the test of the determinant against 0
EDrawImageIgnoresDet(f, i, img, options) ==
    Let([f0 \in {copyCheck(f, i)} |-> Then(f0,
    IF isDisposed(f0, img)
    THEN Panic(f0, "ebiten: the given image to DrawImage must not be disposed")
    ELSE IF isDisposed(f0, i) THEN f0
    ELSE IF isSubImage(f0, i)
    THEN Panic(f0, "ebiten: render to a subimage is not implemented (drawImage)")
    ELSE
    Let([f1 \in {resolvePendingPixels(f0, img, TRUE)} |-> Then(f1,
    Let([f2 \in {resolvePendingPixels(f1, i, TRUE)} |-> Then(f2,
    Let([op \in {IF options = <<>> THEN DefaultOptions ELSE options[1]} |->
    Let([bounds \in {IF op.SourceRect = <<>> THEN Bounds(f2, img)
        ELSE Intersect(Bounds(f2, img), op.SourceRect)} |->
    IF op.SourceRect # <<>> /\ Empty(bounds) THEN f2
    ELSE
    Let([filter \in {IF op.Filter # "default" THEN op.Filter
        ELSE IF f2.ebitenImages[img].filter # "default" THEN f2.ebitenImages[img].filter
        ELSE "nearest"} |->
    IF op.GeoM.nan THEN f2
    ELSE
    Let([level0 \in {mipmapLevel(op.GeoM, Dx(bounds), Dy(bounds), filter)} |->
    Let([level1 \in {IF level0 > 0 THEN adjustLevel(level0, Dx(bounds), Dy(bounds)) ELSE level0} |->
    IF level0 > 0 /\ level1 < 0 THEN f2
    ELSE drawLevel(f2, i, img, bounds, Max(-6, Min(6, level1)), op.GeoM, op.ColorM,
                   op.CompositeMode)])])])])]))]))]))])

\* (*Image).DrawImage; options is <<>> (nil) or <<the options>>, whose
\* ImageParts and Parts are nil
EDrawImage(f, i, img, options) ==
    Let([f0 \in {copyCheck(f, i)} |-> Then(f0,
    IF isDisposed(f0, img)
    THEN Panic(f0, "ebiten: the given image to DrawImage must not be disposed")
    ELSE IF isDisposed(f0, i) THEN f0
    ELSE IF isSubImage(f0, i)
    THEN Panic(f0, "ebiten: render to a subimage is not implemented (drawImage)")
    ELSE
    Let([f1 \in {resolvePendingPixels(f0, img, TRUE)} |-> Then(f1,
    Let([f2 \in {resolvePendingPixels(f1, i, TRUE)} |-> Then(f2,
    Let([op \in {IF options = <<>> THEN DefaultOptions ELSE options[1]} |->
    Let([bounds \in {IF op.SourceRect = <<>> THEN Bounds(f2, img)
        ELSE Intersect(Bounds(f2, img), op.SourceRect)} |->
    IF op.SourceRect # <<>> /\ Empty(bounds) THEN f2
    ELSE
    Let([filter \in {IF op.Filter # "default" THEN op.Filter
        ELSE IF f2.ebitenImages[img].filter # "default" THEN f2.ebitenImages[img].filter
        ELSE "nearest"} |->
    IF op.GeoM.nan THEN f2
    ELSE IF det(op.GeoM) = 0 THEN f2
    ELSE
    Let([level0 \in {mipmapLevel(op.GeoM, Dx(bounds), Dy(bounds), filter)} |->
    Let([level1 \in {IF level0 > 0 THEN adjustLevel(level0, Dx(bounds), Dy(bounds)) ELSE level0} |->
    IF level0 > 0 /\ level1 < 0 THEN f2
    ELSE drawLevel(f2, i, img, bounds, Max(-6, Min(6, level1)), op.GeoM, op.ColorM,
                   op.CompositeMode)])])])])]))]))]))])

\* the color scale Fill gives to the white pixel of emptyImage for the color
\* of the 16-bit channels c16: c16 itself, in 8 bits
FillColor(c16) ==
    IF c16[4] > 0
    THEN <<(c16[1] * 255) \div 65535, (c16[2] * 255) \div 65535,
           (c16[3] * 255) \div 65535, (c16[4] * 255) \div 65535>>
    ELSE ZeroPx

\* the image init makes for Fill
emptyImage == 1

\* (*Image).Fill
EFill(f, i, clr) ==
    Let([f0 \in {copyCheck(f, i)} |-> Then(f0,
    IF isDisposed(f0, i) THEN f0
    ELSE IF isSubImage(f0, i)
    THEN Panic(f0, "ebiten: render to a subimage is not implemented (Fill)")
    ELSE
    Let([f1 \in {resolvePendingPixels(f0, i, FALSE)} |->
    Let([op \in {[DefaultOptions EXCEPT
            !.GeoM = GeoMScale(@, Dx(Bounds(f1, i)) \div Dx(Bounds(f1, emptyImage)),
                               Dy(Bounds(f1, i)) \div Dy(Bounds(f1, emptyImage))),
            !.ColorM = FillColor(RGBA16(clr)),
            !.CompositeMode = IF RGBA16(clr)[4] < 65535 THEN "copy" ELSE @]} |->
        EDrawImage(ResetRestoringState(f1, original(f1, i)), i, emptyImage, <<op>>)])]))])

\* MaxIndicesNum = graphics.IndicesNum
MaxIndicesNum == 65535

\* DrawTriangles without the test of len(indices) % 3
EDrawTrianglesAnyCount(f, i, img, nIndices, options) ==
    Let([f0 \in {copyCheck(f, i)} |-> Then(f0,
    IF isDisposed(f0, i) THEN f0
    ELSE IF isSubImage(f0, i)
    THEN Panic(f0, "ebiten: render to a subimage is not implemented (DrawTriangles)")
    ELSE
    Let([f1 \in {resolvePendingPixels(f0, img, TRUE)} |-> Then(f1,
    Let([f2 \in {resolvePendingPixels(f1, i, TRUE)} |-> Then(f2,
    IF nIndices > MaxIndicesNum
    THEN Panic(f2, "ebiten: len(indices) must be <= MaxIndicesNum")
    ELSE IF isDisposed(f2, img) THEN Panic(f2, "ebiten: the image is already disposed")
    ELSE
    Let([op \in {IF options = <<>> THEN DefaultOptions ELSE options[1]} |->
    Let([r \in {Bounds(f2, img)} |->
    Let([vs \in {PutQuadVertices(f2, original(f2, img), r[1], r[2], r[3], r[4],
                        GeoM(1, 0, 0, 1, 0, 0), White)} |->
    Let([f3 \in {vs.w} |-> Then(f3,
    Let([f4 \in {DrawTriangles(f3, original(f3, i), original(f3, img),
                       IF nIndices = 0 THEN [vs.q EXCEPT !.w = 0, !.h = 0] ELSE vs.q,
                       op.CompositeMode)} |-> Then(f4,
        disposeMipmaps(f4, i))]))])])])]))]))]))])

\* (*Image).DrawTriangles: the vertices are the corners of the bounds of img,
\* drawn at the origin of i in the colors of img, and the indices are
\* nIndices indices of these vertices
EDrawTriangles(f, i, img, nIndices, options) ==
    Let([f0 \in {copyCheck(f, i)} |-> Then(f0,
    IF isDisposed(f0, i) THEN f0
    ELSE IF isSubImage(f0, i)
    THEN Panic(f0, "ebiten: render to a subimage is not implemented (DrawTriangles)")
    ELSE
    Let([f1 \in {resolvePendingPixels(f0, img, TRUE)} |-> Then(f1,
    Let([f2 \in {resolvePendingPixels(f1, i, TRUE)} |-> Then(f2,
    IF nIndices % 3 # 0 THEN Panic(f2, "ebiten: len(indices) % 3 must be 0")
    ELSE IF nIndices > MaxIndicesNum
    THEN Panic(f2, "ebiten: len(indices) must be <= MaxIndicesNum")
    ELSE IF isDisposed(f2, img) THEN Panic(f2, "ebiten: the image is already disposed")
    ELSE
    Let([op \in {IF options = <<>> THEN DefaultOptions ELSE options[1]} |->
    Let([r \in {Bounds(f2, img)} |->
    Let([vs \in {PutQuadVertices(f2, original(f2, img), r[1], r[2], r[3], r[4],
                        GeoM(1, 0, 0, 1, 0, 0), White)} |->
    Let([f3 \in {vs.w} |-> Then(f3,
    Let([f4 \in {DrawTriangles(f3, original(f3, i), original(f3, img),
                       IF nIndices = 0 THEN [vs.q EXCEPT !.w = 0, !.h = 0] ELSE vs.q,
                       op.CompositeMode)} |-> Then(f4,
        disposeMipmaps(f4, i))]))])])])]))]))]))])

-----------------------------------------------------------------------------
(* The program as a state machine over the exported entry points of        *)
(* package shareable.                                                      *)

World ==
    [images |-> images, backends |-> backends, theBackends |-> theBackends,
     imagesToMakeShared |-> imagesToMakeShared, minSize |-> minSize,
     maxSize |-> maxSize, onceDone |-> onceDone, rimgs |-> rimgs,
     theImages |-> theImages, forceRestoring |-> forceRestoring,
     driver |-> driver, panicked |-> panicked]

\* backends no image and no list refers to any more are garbage
LiveBackends(w) ==
    ({ w.images[i].backend : i \in DOMAIN w.images }
        \cup { w.theBackends[k] : k \in 1..Len(w.theBackends) }) \ {0}

Commit(w) ==
    /\ images' = w.images
    /\ backends' = Restrict(w.backends, (DOMAIN w.backends) \cap LiveBackends(w))
    /\ theBackends' = w.theBackends
    /\ imagesToMakeShared' = w.imagesToMakeShared
    /\ minSize' = w.minSize
    /\ maxSize' = w.maxSize
    /\ onceDone' = w.onceDone
    /\ rimgs' = w.rimgs
    /\ theImages' = w.theImages
    /\ forceRestoring' = w.forceRestoring
    /\ driver' = w.driver
    /\ panicked' = w.panicked

\* the program starts in the world w
Start(w) ==
    /\ images = w.images
    /\ backends = w.backends
    /\ theBackends = w.theBackends
    /\ imagesToMakeShared = w.imagesToMakeShared
    /\ minSize = w.minSize
    /\ maxSize = w.maxSize
    /\ onceDone = w.onceDone
    /\ rimgs = w.rimgs
    /\ theImages = w.theImages
    /\ forceRestoring = w.forceRestoring
    /\ driver = w.driver
    /\ panicked = w.panicked

Op(name, i, j) == [op |-> name, i |-> i, j |-> j]

\* the graphics drivers the program runs on
DriverHP ==
    [hasHighPrecisionFloat |-> TRUE, maxImageSize |-> 2048, needsRestoring |-> FALSE,
     invalidated |-> FALSE]
DriverLP ==
    [hasHighPrecisionFloat |-> FALSE, maxImageSize |-> 2048, needsRestoring |-> FALSE,
     invalidated |-> FALSE]
\* a driver with high-precision floats whose textures are at most 512 wide
DriverSmall ==
    [hasHighPrecisionFloat |-> TRUE, maxImageSize |-> 512, needsRestoring |-> FALSE,
     invalidated |-> FALSE]
\* a driver with high-precision floats whose textures can be 4096 wide
DriverLarge ==
    [hasHighPrecisionFloat |-> TRUE, maxImageSize |-> 4096, needsRestoring |-> FALSE,
     invalidated |-> FALSE]
\* a driver that loses its textures with its context
DriverGL ==
    [hasHighPrecisionFloat |-> TRUE, maxImageSize |-> 2048, needsRestoring |-> TRUE,
     invalidated |-> FALSE]

Red == <<255, 0, 0, 255>>
Green == <<0, 255, 0, 255>>

\* the pixel data the program uploads to an image of n pixels: a red first
\* pixel, or a green last pixel
RedFirst(n) == BytesOfPixels(4 * n, (0 :> Red))
GreenLast(n) == BytesOfPixels(4 * n, ((n - 1) :> Green))

\* the state of the process when main starts
Boot(d) ==
    [images |-> <<>>, backends |-> <<>>, theBackends |-> <<>>,
     imagesToMakeShared |-> {}, minSize |-> 0, maxSize |-> 0, onceDone |-> FALSE,
     rimgs |-> <<>>, theImages |-> [images |-> {}, lastTarget |-> 0],
     forceRestoring |-> FALSE, driver |-> d, panicked |-> ""]

\* a draw of the whole image img to the origin of i: the caller builds the
\* vertices with PutVertex and passes them to DrawTriangles
Draw(w, i, img) ==
    Let([vs \in {PutVertex(w, img)} |->
        IF vs.w.panicked # "" THEN vs.w ELSE DrawTriangles(vs.w, i, img, vs.q, "over")])

\* a game in its first frame: the screen (image 1) exists, the before-update
\* hook has run once, and two sprites of side s (images 2 and 3) have been
\* created and uploaded
Started(d, s) ==
    replacePixels(
        NewImage(
            replacePixels(
                NewImage(
                    BeforeUpdateHook(NewScreenFramebufferImage(Boot(d), 1, 2, 1), <<>>),
                    2, s, s),
                2, RedFirst(s * s)),
            3, s, s),
        3, GreenLast(s * s))

\* a game that has loaded its two sprites before its first frame: they were
\* uploaded before the before-update hook ran for the first time
Loaded(d, s) ==
    BeforeUpdateHook(
        replacePixels(
            replacePixels(
                NewImage(NewImage(NewScreenFramebufferImage(Boot(d), 1, 2, 1), 2, s, s),
                         3, s, s),
                2, RedFirst(s * s)),
            3, GreenLast(s * s)),
        <<>>)

\* a game in its first frame that has made two sprites, of the sides s2 and s3
\* (images 2 and 3), and has not written to them yet
Made(d, s2, s3) ==
    NewImage(NewImage(BeforeUpdateHook(NewScreenFramebufferImage(Boot(d), 1, 2, 1), <<>>),
                      2, s2, s2),
             3, s3, s3)

\* a game in its first frame with two atlases that cannot grow, each holding a
\* sprite of 300x300, that has made two small images (images 4 and 5) and has
\* not written to them yet
Crowded(d) == NewImage(NewImage(Started(d, 300), 4, 2, 1), 5, 2, 1)

RECURSIVE Played(_, _)
\* the game has drawn the sprite 2 to the screen in each of n frames
Played(w, n) ==
    IF n = 0 THEN w
    ELSE Let([v \in {BeforeUpdateHook(Draw(w, 1, 2), <<2>>)} |-> Played(v, n - 1)])

\* a game whose sprite 2 is one frame short of the atlas and has been drawn
\* to the screen in the frame that is running
Aged(d) == Draw(Played(Loaded(d, 300), MaxCountForShare - 1), 1, 2)

\* the sizes of the images the program creates
ImageSizes == { <<2, 1>>, <<600, 600>> }

Uploads(n) == { RedFirst(n), GreenLast(n) }

InitWorlds ==
    { Boot(DriverHP), Boot(DriverLP), Boot(DriverSmall),
      Made(DriverHP, 600, 600), Made(DriverLarge, 600, 1500), Made(DriverLP, 300, 300),
      Crowded(DriverLP), Aged(DriverHP),
      Started(DriverHP, 600), Started(DriverLP, 300),
      Loaded(DriverHP, 600), Loaded(DriverLP, 300) }

Goroutines == {"main", "finalizer"}

Idle == [op |-> "", i |-> 0, j |-> 0, at |-> "idle"]

\* the arguments of a call: the coordinates, the color, the pixels, the
\* options, the number of indices and the rectangle, and the color returned
Args(x, y, clr, p, options, n, r, ret) ==
    [x |-> x, y |-> y, clr |-> clr, p |-> p, options |-> options, n |-> n, r |-> r,
     ret |-> ret]

NoArgs == Args(0, 0, ZeroPx, NilBytes, <<>>, 0, ZR, ZeroPx)

\* no restore has run, every goroutine is outside of the package, and the
\* program uses package shareable without package ebiten
Untracked ==
    /\ sorted = <<>>
    /\ resolved = "dirty"
    /\ mutex = ""
    /\ pc = [g \in Goroutines |-> Idle]
    /\ ebitenImages = <<>>
    /\ mipmaps = <<>>
    /\ isRunning = FALSE
    /\ lastArgs = NoArgs

Init ==
    /\ \E w \in InitWorlds : Start(w)
    /\ lastOp = Op("init", 0, 0)
    /\ steps = 0
    /\ frames = 0
    /\ screenOrVolatile =
          { i \in DOMAIN images :
               images[i].backend # 0 /\ rimgs[backends[images[i].backend].restorable].screen }
    /\ Untracked

\* the program runs until a panic; the model follows it for MaxSteps calls
Running == panicked = "" /\ steps < MaxSteps

\* the entry point name has been called with the images i and j
Record(name, i, j) ==
    /\ lastOp' = Op(name, i, j)
    /\ frames' = IF name = "BeforeUpdateHook" THEN frames + 1 ELSE frames
    /\ screenOrVolatile' =
          IF name \in {"NewScreenFramebufferImage", "MakeVolatile"}
          THEN screenOrVolatile \cup {i} ELSE screenOrVolatile

\* one more entry point has been called, by the main goroutine from the lock
\* to the unlock
Step(name, i, j) ==
    /\ steps' = steps + 1
    /\ Record(name, i, j)
    /\ UNCHANGED <<facadeVars, sorted, resolved, mutex, pc>>

NextHandle == Cardinality(DOMAIN images) + 1

DoNewImage ==
    /\ Running
    /\ NextHandle <= MaxImages
    /\ \E s \in ImageSizes :
          /\ \E w \in {NewImage(World, NextHandle, s[1], s[2])} : Commit(w)
          /\ Step("NewImage", NextHandle, 0)

\* the window has one screen framebuffer
DoNewScreenFramebufferImage ==
    /\ Running
    /\ NextHandle <= MaxImages
    /\ \A r \in DOMAIN rimgs : ~rimgs[r].screen
    /\ \E w \in {NewScreenFramebufferImage(World, NextHandle, 2, 1)} : Commit(w)
    /\ Step("NewScreenFramebufferImage", NextHandle, 0)

\* (*Image).ReplacePixels
DoReplacePixels ==
    /\ Running
    /\ \E i \in DOMAIN images :
       \E p \in Uploads(images[i].width * images[i].height) :
          /\ \E w \in {replacePixels(World, i, p)} : Commit(w)
          /\ Step("ReplacePixels", i, 0)

DoDrawTriangles ==
    /\ Running
    /\ \E i, img \in DOMAIN images :
          /\ \E w \in {Draw(World, i, img)} : Commit(w)
          /\ Step("DrawTriangles", i, img)

DoMakeVolatile ==
    /\ Running
    /\ \E i \in DOMAIN images :
          /\ \E w \in {MakeVolatile(World, i)} : Commit(w)
          /\ Step("MakeVolatile", i, 0)

\* (*Image).Dispose, called by the program or by the finalizer
DoDispose ==
    /\ Running
    /\ \E i \in DOMAIN images :
          /\ \E w \in {dispose(World, i, TRUE)} : Commit(w)
          /\ Step("Dispose", i, 0)

\* (*Image).At: a read under the lock, which changes no program variable
DoAt ==
    /\ Running
    /\ \E i \in DOMAIN images :
          /\ at(World, i, 0, 0) \in Nat \X Nat \X Nat \X Nat
          /\ Commit(World)
          /\ Step("At", i, 0)

DoBeforeUpdateHook ==
    /\ Running
    /\ \E order \in Orders(imagesToMakeShared) :
          /\ \E w \in {BeforeUpdateHook(World, order)} : Commit(w)
          /\ Step("BeforeUpdateHook", 0, 0)

Next ==
    \/ DoNewImage
    \/ DoNewScreenFramebufferImage
    \/ DoReplacePixels
    \/ DoDrawTriangles
    \/ DoMakeVolatile
    \/ DoDispose
    \/ DoAt
    \/ DoBeforeUpdateHook

Spec == Init /\ [][Next]_vars

-----------------------------------------------------------------------------
(* The promotion scenario: a game with a screen (image 1) and three sprites *)
(* of 100x100 (images 2, 3 and 4) that are private and shareable when the   *)
(* first frame starts.  In every frame the game draws its sprites to the    *)
(* screen; it may make a sprite of the atlas volatile.                      *)

SpriteSide == 100

\* the screen and the three sprites, created and uploaded
ThreeSprites(w) ==
    replacePixels(
        replacePixels(
            replacePixels(
                NewImage(NewImage(NewImage(w, 2, SpriteSide, SpriteSide),
                                  3, SpriteSide, SpriteSide),
                         4, SpriteSide, SpriteSide),
                2, RedFirst(SpriteSide * SpriteSide)),
            3, GreenLast(SpriteSide * SpriteSide)),
        4, BytesOfPixels(4 * SpriteSide * SpriteSide, (0 :> Green) @@ (SpriteSide :> Red)))

\* the sprites were uploaded before the first before-update pass: they were
\* allocated while no image could be shared
PromoteLoaded(d) ==
    BeforeUpdateHook(ThreeSprites(NewScreenFramebufferImage(Boot(d), 1, 2, 1)), <<>>)

\* the sprites were uploaded to the atlas in the first frame, and the game
\* has drawn the screen on each of them since
PromoteRetouched(d) ==
    Draw(Draw(Draw(ThreeSprites(
                       BeforeUpdateHook(NewScreenFramebufferImage(Boot(d), 1, 2, 1), <<>>)),
                   2, 1),
              3, 1),
         4, 1)

PromoteWorlds ==
    { PromoteLoaded(DriverHP), PromoteLoaded(DriverLP),
      PromoteRetouched(DriverHP), PromoteRetouched(DriverLP) }

PromoteInit ==
    /\ \E w \in PromoteWorlds : Start(w)
    /\ lastOp = Op("init", 0, 0)
    /\ steps = 0
    /\ frames = 0
    /\ screenOrVolatile = {1}
    /\ Untracked

PromoteRunning == panicked = "" /\ frames < MaxFrames

\* the images that would be promoted after enough frames as a source
Promotable(w) ==
    { i \in DOMAIN w.images :
         ~w.images[i].disposed /\ ~isShared(w, i) /\ shareable(w, i) }

\* the game draws a sprite to the screen
PromoteDraw ==
    /\ PromoteRunning
    /\ \E img \in (DOMAIN images) \ {1} :
          /\ \E w \in {Draw(World, 1, img)} : Commit(w)
          /\ Record("DrawTriangles", 1, img)
    /\ UNCHANGED <<steps, facadeVars, sorted, resolved, mutex, pc>>

\* the frame ends once every sprite that can be promoted has been drawn
PromoteHook ==
    /\ PromoteRunning
    /\ Promotable(World) \subseteq imagesToMakeShared
    /\ \E order \in Orders(imagesToMakeShared) :
          /\ \E w \in {BeforeUpdateHook(World, order)} : Commit(w)
          /\ Record("BeforeUpdateHook", 0, 0)
    /\ UNCHANGED <<steps, facadeVars, sorted, resolved, mutex, pc>>

\* the game makes a sprite of the atlas volatile
PromoteMakeVolatile ==
    /\ PromoteRunning
    /\ \E i \in (DOMAIN images) \ {1} :
          /\ isShared(World, i)
          /\ \E w \in {MakeVolatile(World, i)} : Commit(w)
          /\ Record("MakeVolatile", i, 0)
    /\ UNCHANGED <<steps, facadeVars, sorted, resolved, mutex, pc>>

PromoteNext ==
    \/ PromoteDraw
    \/ PromoteHook
    \/ PromoteMakeVolatile

SpecPromote == PromoteInit /\ [][PromoteNext]_vars

-----------------------------------------------------------------------------
(* The goroutines scenario: the main goroutine calls the exported functions *)
(* of package shareable, and the finalizer goroutine of the runtime calls   *)
(* Dispose on images the program has dropped.  A call is three steps: the   *)
(* entry (with backendsM.Lock() where the function has it), the body, and   *)
(* the return (with the deferred backendsM.Unlock()).                       *)

\* the exported functions in this scenario
EntryPoints ==
    { "NewImage", "PutVertex", "DrawTriangles", "ReplacePixels", "Dispose",
      "MakeImagesSharedForTesting", "BeforeUpdateHook" }

\* the functions that start with backendsM.Lock(); defer backendsM.Unlock()
Locks(op) == op \in { "DrawTriangles", "ReplacePixels", "Dispose", "BeforeUpdateHook" }

\* the functions that read or write theBackends, a page, the backend or the
\* node of an image, or imagesToMakeShared
Touches(op) == op \in EntryPoints \ {"NewImage"}

\* the body of the function op
Body(w, op, i, j, order) ==
    CASE op = "NewImage" -> NewImage(w, i, 2, 1)
      [] op = "PutVertex" -> PutVertex(w, i).w
      [] op = "DrawTriangles" -> DrawTriangles(w, i, j, PutVertex(w, j).q, "over")
      [] op = "ReplacePixels" ->
            replacePixels(w, i, RedFirst(w.images[i].width * w.images[i].height))
      [] op = "Dispose" -> dispose(w, i, TRUE)
      [] op = "MakeImagesSharedForTesting" -> makeImagesSharedIn(w, order)
      [] OTHER -> BeforeUpdateHook(w, order)

ConcInit ==
    /\ \E w \in InitWorlds : Start(w)
    /\ lastOp = Op("init", 0, 0)
    /\ steps = 0
    /\ frames = 0
    /\ screenOrVolatile =
          { i \in DOMAIN images :
               images[i].backend # 0 /\ rimgs[backends[images[i].backend].restorable].screen }
    /\ Untracked

\* the images the goroutine g is working on
Held(g) == IF pc[g].at = "idle" THEN {} ELSE {pc[g].i, pc[g].j}

\* the goroutine g enters the function op
Enter(g, op, i, j) ==
    /\ panicked = "" /\ steps < MaxCalls
    /\ pc[g].at = "idle"
    /\ Locks(op) => mutex = ""
    /\ mutex' = IF Locks(op) THEN g ELSE mutex
    /\ pc' = [pc EXCEPT ![g] = [op |-> op, i |-> i, j |-> j, at |-> "body"]]
    /\ steps' = steps + 1
    /\ UNCHANGED <<images, backends, theBackends, imagesToMakeShared, minSize, maxSize,
                   onceDone, rimgs, theImages, forceRestoring, driver, panicked,
                   lastOp, frames, screenOrVolatile, facadeVars, sorted, resolved>>

\* the main goroutine calls a function on images it holds
ConcCallMain ==
    \E op \in EntryPoints :
       \/ /\ op = "NewImage"
          /\ NextHandle <= MaxImages
          /\ Enter("main", op, 0, 0)
       \/ /\ op \in {"MakeImagesSharedForTesting", "BeforeUpdateHook"}
          /\ Enter("main", op, 0, 0)
       \/ /\ op \in {"PutVertex", "ReplacePixels", "Dispose"}
          /\ \E i \in (DOMAIN images) \ Held("finalizer") :
                ~images[i].disposed /\ Enter("main", op, i, 0)
       \/ /\ op = "DrawTriangles"
          /\ \E i, j \in (DOMAIN images) \ Held("finalizer") :
                ~images[i].disposed /\ ~images[j].disposed /\ Enter("main", op, i, j)

\* the finalizer of an allocated image the program has dropped calls Dispose;
\* the map imagesToMakeShared keeps its keys from being collected
ConcCallFinalizer ==
    \E i \in (DOMAIN images) \ (Held("main") \cup imagesToMakeShared) :
       /\ ~images[i].disposed /\ images[i].backend # 0
       /\ Enter("finalizer", "Dispose", i, 0)

\* another goroutine is in a body that works on the same variables, and the
\* two are not both under the lock: a data race
Racing(g) ==
    \E h \in Goroutines \ {g} :
       /\ pc[h].at = "body"
       /\ Touches(pc[g].op) /\ Touches(pc[h].op)
       /\ ~Locks(pc[g].op) \/ ~Locks(pc[h].op)

\* the body of the call of g runs; in a data race it may also crash
ConcBody ==
    \E g \in Goroutines :
       /\ panicked = ""
       /\ pc[g].at = "body"
       /\ \E order \in Orders(imagesToMakeShared) :
          \E w \in {Body(World, pc[g].op,
                         IF pc[g].op = "NewImage" THEN NextHandle ELSE pc[g].i,
                         pc[g].j, order)} \cup
                   (IF Racing(g) THEN {Panic(World, "fatal error: data race")} ELSE {}) :
             Commit(w)
       /\ Record(pc[g].op, IF pc[g].op = "NewImage" THEN NextHandle ELSE pc[g].i, pc[g].j)
       /\ pc' = [pc EXCEPT ![g].at = "exit"]
       /\ UNCHANGED <<steps, facadeVars, sorted, resolved, mutex>>

\* the call of g returns
ConcReturn ==
    \E g \in Goroutines :
       /\ panicked = ""
       /\ pc[g].at = "exit"
       /\ pc' = [pc EXCEPT ![g] = Idle]
       /\ mutex' = IF mutex = g THEN "" ELSE mutex
       /\ UNCHANGED <<images, backends, theBackends, imagesToMakeShared, minSize, maxSize,
                      onceDone, rimgs, theImages, forceRestoring, driver, panicked,
                      lastOp, steps, frames, screenOrVolatile, facadeVars, sorted, resolved>>

ConcNext ==
    \/ ConcCallMain
    \/ ConcCallFinalizer
    \/ ConcBody
    \/ ConcReturn

SpecConc == ConcInit /\ [][ConcNext]_vars

-----------------------------------------------------------------------------
(* The restoration scenario: a program that uses package restorable, with   *)
(* images of 2x1 pixels.  The ends of its frames (ResolveStaleImages) and   *)
(* the restorations (RestoreIfNeeded) come at any time.                     *)

WholeImage == Quad(0, 0, 2, 1, 0, 0)
\* the first pixel of the source, copied to the second pixel of the target
FirstToSecond == Quad(0, 0, 1, 1, 1, 0)

\* the screen (image 1) and three images (2, 3 and 4)
Scene(w) ==
    RNewImage(RNewImage(RNewImage(RNewScreenFramebufferImage(w, 1, 2, 1), 2, 2, 1),
                        3, 2, 1),
              4, 2, 1)

\* image 2 is uploaded, image 3 is drawn from 2 and image 4 from 3, and the
\* frame ends
Chain(w) ==
    ResolveStaleImages(
        RDrawTriangles(
            RDrawTriangles(RReplacePixels(Scene(w), 2, RedFirst(2), 0, 0, 2, 1),
                           3, 2, WholeImage, "over"),
            4, 3, FirstToSecond, "copy"))

\* image 2 is uploaded, image 3 is drawn from 2, a pixel of 2 is uploaded
\* again, and the frame ends
Retouched(w) ==
    ResolveStaleImages(
        RReplacePixels(
            RDrawTriangles(RReplacePixels(Scene(w), 2, RedFirst(2), 0, 0, 2, 1),
                           3, 2, WholeImage, "over"),
            2, BytesOfPixels(4, (0 :> Green)), 1, 0, 1, 1))

RestoreWorlds ==
    UNION { { w, Chain(w), Retouched(w) } : w \in { Boot(DriverHP), Boot(DriverGL) } }

RestoreInit ==
    /\ \E w \in RestoreWorlds : Start(w)
    /\ lastOp = Op("init", 0, 0)
    /\ steps = 0
    /\ frames = 0
    /\ screenOrVolatile = {}
    /\ sorted = <<>>
    /\ resolved = IF theImages.images = {} THEN "dirty"
                  ELSE IF needsRestoring(World) THEN "resolved" ELSE "returned"
    /\ mutex = ""
    /\ pc = [g \in Goroutines |-> Idle]
    /\ ebitenImages = <<>>
    /\ mipmaps = <<>>
    /\ isRunning = FALSE
    /\ lastArgs = NoArgs

RestoreRunning == panicked = "" /\ steps < MaxCalls

\* a function of package restorable has been called
Called(name, i, j, res) ==
    /\ steps' = steps + 1
    /\ lastOp' = Op(name, i, j)
    /\ resolved' = res
    /\ UNCHANGED <<facadeVars, frames, screenOrVolatile, mutex, pc>>

\* what the program uploads: the whole image, or the second pixel
RestoreUploads ==
    { [p |-> RedFirst(2), x |-> 0, w |-> 2],
      [p |-> BytesOfPixels(4, (0 :> Green)), x |-> 1, w |-> 1] }

RsNewImage ==
    /\ RestoreRunning
    /\ Cardinality(DOMAIN rimgs) <= MaxImages
    /\ \E w \in {RNewImage(World, FreshRImage(World), 2, 1)} : Commit(w)
    /\ Called("NewImage", FreshRImage(World), 0, "dirty")
    /\ sorted' = <<>>

RsNewScreenFramebufferImage ==
    /\ RestoreRunning
    /\ Cardinality(DOMAIN rimgs) <= MaxImages
    /\ \A r \in DOMAIN rimgs : ~rimgs[r].screen
    /\ \E w \in {RNewScreenFramebufferImage(World, FreshRImage(World), 2, 1)} : Commit(w)
    /\ Called("NewScreenFramebufferImage", FreshRImage(World), 0, "dirty")
    /\ sorted' = <<>>

RsReplacePixels ==
    /\ RestoreRunning
    /\ \E id \in DOMAIN rimgs :
       \E u \in RestoreUploads :
          /\ \E w \in {RReplacePixels(World, id, u.p, u.x, 0, u.w, 1)} : Commit(w)
          /\ Called("ReplacePixels", id, 0, "dirty")
    /\ sorted' = <<>>

RsDrawTriangles ==
    /\ RestoreRunning
    /\ \E dst, src \in DOMAIN rimgs :
          /\ dst # src
          /\ \E w \in {RDrawTriangles(World, dst, src, FirstToSecond, "copy")} : Commit(w)
          /\ Called("DrawTriangles", dst, src, "dirty")
    /\ sorted' = <<>>

RsMakeVolatile ==
    /\ RestoreRunning
    /\ \E id \in DOMAIN rimgs :
          /\ \E w \in {RMakeVolatile(World, id)} : Commit(w)
          /\ Called("MakeVolatile", id, 0, "dirty")
    /\ sorted' = <<>>

RsDispose ==
    /\ RestoreRunning
    /\ \E id \in DOMAIN rimgs :
          /\ \E w \in {RDispose(World, id)} : Commit(w)
          /\ Called("Dispose", id, 0, "dirty")
    /\ sorted' = <<>>

RsResolveStaleImages ==
    /\ RestoreRunning
    /\ \E w \in {ResolveStaleImages(World)} : Commit(w)
    /\ Called("ResolveStaleImages", 0, 0,
              IF needsRestoring(World) THEN "resolved" ELSE "returned")
    /\ sorted' = <<>>

RsEnableRestoringForTesting ==
    /\ RestoreRunning
    /\ \E w \in {EnableRestoringForTesting(World)} : Commit(w)
    /\ Called("EnableRestoringForTesting", 0, 0, resolved)
    /\ sorted' = <<>>

\* the driver loses its context and the textures with it
RsContextLost ==
    /\ RestoreRunning
    /\ driver.needsRestoring
    /\ \E w \in {[World EXCEPT !.driver.invalidated = TRUE,
                               !.rimgs = [r \in DOMAIN rimgs |->
                                             [rimgs[r] EXCEPT !.pix = NoPixels]]]} :
          Commit(w)
    /\ Called("ContextLost", 0, 0, "dirty")
    /\ sorted' = <<>>

RsRestoreIfNeeded ==
    /\ RestoreRunning
    /\ \E order \in Orders(theImages.images) :
          /\ \E w \in {RestoreIfNeeded(World, order)} : Commit(w)
          /\ sorted' = IF RestoreRuns(World)
                       THEN restoreSorted(ResetGraphicsDriverState(World), order)
                       ELSE <<>>
    /\ Called("RestoreIfNeeded", 0, IF RestoreRuns(World) THEN 1 ELSE 0, resolved)

RestoreNext ==
    \/ RsNewImage
    \/ RsNewScreenFramebufferImage
    \/ RsReplacePixels
    \/ RsDrawTriangles
    \/ RsMakeVolatile
    \/ RsDispose
    \/ RsResolveStaleImages
    \/ RsEnableRestoringForTesting
    \/ RsContextLost
    \/ RsRestoreIfNeeded

SpecRestore == RestoreInit /\ [][RestoreNext]_vars

-----------------------------------------------------------------------------
(* The image scenario: a game that uses package ebiten.  init has made      *)
(* emptyImage (image 1); the game has a root image of 4x4 with a different  *)
(* color in each pixel (image 2), its sub-image of (1,1)-(3,3) (image 3),   *)
(* a new root image of 2x2 (image 4) and an empty sub-image of the image 2  *)
(* (image 5), and calls the methods of Image from its update function.      *)

MaxFacadeCalls == 1
MaxEbitenImages == 6

\* the program variables, those of package ebiten included
FWorld ==
    [images |-> images, backends |-> backends, theBackends |-> theBackends,
     imagesToMakeShared |-> imagesToMakeShared, minSize |-> minSize,
     maxSize |-> maxSize, onceDone |-> onceDone, rimgs |-> rimgs,
     theImages |-> theImages, forceRestoring |-> forceRestoring,
     driver |-> driver, panicked |-> panicked,
     ebitenImages |-> ebitenImages, mipmaps |-> mipmaps, isRunning |-> isRunning]

FCommit(f) ==
    /\ Commit(f)
    /\ ebitenImages' = f.ebitenImages
    /\ mipmaps' = f.mipmaps
    /\ isRunning' = f.isRunning

FStart(f) ==
    /\ Start([f EXCEPT !.backends = Restrict(@, (DOMAIN @) \cap LiveBackends(f))])
    /\ ebitenImages = f.ebitenImages
    /\ mipmaps = f.mipmaps
    /\ isRunning = f.isRunning

\* the state of the process after init of package ebiten: emptyImage is a
\* white pixel
EBoot(d) ==
    EReplacePixels(
        ENewImage([images |-> <<>>, backends |-> <<>>, theBackends |-> <<>>,
                   imagesToMakeShared |-> {}, minSize |-> 0, maxSize |-> 0,
                   onceDone |-> FALSE, rimgs |-> <<>>,
                   theImages |-> [images |-> {}, lastTarget |-> 0],
                   forceRestoring |-> FALSE, driver |-> d, panicked |-> "",
                   ebitenImages |-> <<>>, mipmaps |-> <<>>, isRunning |-> FALSE],
                  emptyImage, 1, 1, "default"),
        emptyImage, BytesOfPixels(4, (0 :> White)))

\* the main loop starts: its first frame begins with the before-update hook
Run(f) == BeforeUpdateHook([f EXCEPT !.isRunning = TRUE], <<>>)

\* the pixels of an image of width x height whose pixel (x, y) is
\* (x + 1, y + 1, 0, 255)
Gradient(width, height) ==
    BytesOfPixels(4 * width * height,
                  [k \in 0..(width * height - 1) |->
                      <<1 + (k % width), 1 + (k \div width), 0, 255>>])

\* the images 2, 3, 4 and 5 of the game
Sprites(f) ==
    ESubImage(
        ENewImage(
            ESubImage(EReplacePixels(ENewImage(f, 2, 4, 4, "default"), 2, Gradient(4, 4)),
                      2, <<1, 1, 3, 3>>, 3),
            4, 2, 2, "default"),
        2, <<2, 2, 2, 2>>, 5)

\* the options of a draw at twice the size with the linear filter
Linear2 ==
    [DefaultOptions EXCEPT !.GeoM = GeoM(2, 0, 0, 2, 0, 0), !.Filter = "linear"]

\* the game made its images before the main loop started
Early(d) == Run(Sprites(EBoot(d)))

\* the game made its images in its first frame
Late(d) == Sprites(Run(EBoot(d)))

\* the game has drawn the image 2 on the image 4 at twice its size
Zoomed(d) == EDrawImage(Late(d), 4, 2, <<Linear2>>)

\* the game has set a pixel of the image 2 and a pixel of the image 4
Painted(f) == ESet(ESet(f, 2, 1, 1, Red), 4, 0, 0, Red)

\* the game has given the image 4 its pixels
Textured(f) == EReplacePixels(f, 4, RedFirst(4))

\* the game has made the image 6 with the width 0
Degenerate(f) == ENewImage(f, 6, 0, 1, "default")

FacadeWorlds ==
    { Early(DriverHP), Late(DriverHP), Zoomed(DriverHP), Textured(Late(DriverHP)),
      Painted(Late(DriverHP)), Painted(Zoomed(DriverHP)), EDispose(Late(DriverHP), 2),
      Degenerate(Late(DriverHP)) }

FacadeInit ==
    /\ \E f \in FacadeWorlds : FStart(f)
    /\ lastOp = Op("init", 0, 0)
    /\ lastArgs = NoArgs
    /\ steps = 0
    /\ frames = 1
    /\ screenOrVolatile = {}
    /\ sorted = <<>>
    /\ resolved = "dirty"
    /\ mutex = ""
    /\ pc = [g \in Goroutines |-> Idle]

FacadeRunning == panicked = "" /\ steps < MaxFacadeCalls

\* the method name has been called on the image i with the image j and the
\* arguments a
FCalled(name, i, j, a) ==
    /\ steps' = steps + 1
    /\ lastOp' = Op(name, i, j)
    /\ lastArgs' = a
    /\ frames' = IF name = "BeforeUpdateHook" THEN frames + 1 ELSE frames
    /\ UNCHANGED <<screenOrVolatile, sorted, resolved, mutex, pc>>

\* the images the game holds
Handles == (DOMAIN ebitenImages) \ {emptyImage}

Half == <<0, 0, 128, 128>>

\* the arguments the game passes
Coordinates == { <<0, 0>>, <<1, 1>>, <<3, 3>>, <<4, 0>>, <<0, 4>> }
SetColors == { Green, Half }
FillColors == { Green, Half }
Rectangles == { <<1, 1, 3, 3>>, <<2, 2, 2, 2>>, <<5, 5, 6, 6>> }
IndexCounts == { 6, 5, MaxIndicesNum + 3 }
NaNGeoM == [GeoM(0, 0, 0, 0, 0, 0) EXCEPT !.nan = TRUE]
DrawOptions ==
    { <<>>,
      <<[DefaultOptions EXCEPT !.GeoM = GeoM(1, 1, 1, 1, 0, 0)]>>,
      <<[DefaultOptions EXCEPT !.GeoM = NaNGeoM]>>,
      <<Linear2>>,
      <<[DefaultOptions EXCEPT !.SourceRect = <<1, 1, 2, 2>>]>>,
      <<[DefaultOptions EXCEPT !.SourceRect = <<5, 5, 6, 6>>]>> }
PixelData(n) == { Gradient(n, 1), RedFirst(n), MakeBytes(4 * n + 4) }

\* the sizes the game passes to NewImage: lastArgs keeps them as x and y
NewImageSizes == { <<2, 2>>, <<0, 1>>, <<1, MaxImageSize + 1>> }

FNewImage ==
    /\ FacadeRunning
    /\ Cardinality(DOMAIN ebitenImages) < MaxEbitenImages
    /\ \E s \in NewImageSizes :
          /\ \E f \in {ENewImage(FWorld, Fresh(DOMAIN ebitenImages), s[1], s[2],
                                  "default")} :
                FCommit(f)
          /\ FCalled("NewImage", Fresh(DOMAIN ebitenImages), 0,
                     [NoArgs EXCEPT !.x = s[1], !.y = s[2]])

FSubImage ==
    /\ FacadeRunning
    /\ Cardinality(DOMAIN ebitenImages) < MaxEbitenImages
    /\ \E i \in Handles, r \in Rectangles :
          /\ \E f \in {ESubImage(FWorld, i, r, Fresh(DOMAIN ebitenImages))} : FCommit(f)
          /\ FCalled("SubImage", i, 0, [NoArgs EXCEPT !.r = r])

FFill ==
    /\ FacadeRunning
    /\ \E i \in Handles, clr \in FillColors :
          /\ \E f \in {EFill(FWorld, i, clr)} : FCommit(f)
          /\ FCalled("Fill", i, 0, [NoArgs EXCEPT !.clr = clr])

\* the draws of the game: a source of no pixels is not drawn with the linear
\* filter (the mipmap would have to make the image of a level for it)
FDrawImage ==
    /\ FacadeRunning
    /\ \E i \in Handles, img \in Handles, options \in DrawOptions :
          /\ IF options = <<Linear2>> /\ ~isDisposed(FWorld, img)
             THEN ~Empty(Bounds(FWorld, img)) ELSE TRUE
          /\ \E f \in {EDrawImage(FWorld, i, img, options)} : FCommit(f)
          /\ FCalled("DrawImage", i, img, [NoArgs EXCEPT !.options = options])

FDrawTriangles ==
    /\ FacadeRunning
    /\ \E i \in Handles, img \in Handles, n \in IndexCounts :
          /\ \E f \in {EDrawTriangles(FWorld, i, img, n, <<>>)} : FCommit(f)
          /\ FCalled("DrawTriangles", i, img, [NoArgs EXCEPT !.n = n])

FSet ==
    /\ FacadeRunning
    /\ \E i \in Handles, c \in Coordinates, clr \in SetColors :
          /\ \E f \in {ESet(FWorld, i, c[1], c[2], clr)} : FCommit(f)
          /\ FCalled("Set", i, 0, [NoArgs EXCEPT !.x = c[1], !.y = c[2], !.clr = clr])

FAt ==
    /\ FacadeRunning
    /\ \E i \in Handles, c \in Coordinates :
       \E res \in {EAt(FWorld, i, c[1], c[2])} :
          /\ FCommit(res.f)
          /\ FCalled("At", i, 0, [NoArgs EXCEPT !.x = c[1], !.y = c[2], !.ret = res.c])

FReplacePixels ==
    /\ FacadeRunning
    /\ \E i \in Handles :
       \E p \in IF isDisposed(FWorld, i) THEN {RedFirst(1)}
                ELSE PixelData(Dx(Bounds(FWorld, i)) * Dy(Bounds(FWorld, i))) :
          /\ \E f \in {EReplacePixels(FWorld, i, p)} : FCommit(f)
          /\ FCalled("ReplacePixels", i, 0, [NoArgs EXCEPT !.p = p])

FDispose ==
    /\ FacadeRunning
    /\ \E i \in Handles :
          /\ \E f \in {EDispose(FWorld, i)} : FCommit(f)
          /\ FCalled("Dispose", i, 0, NoArgs)

\* a frame ends and the next one begins
FBeforeUpdateHook ==
    /\ FacadeRunning
    /\ \E order \in Orders(imagesToMakeShared) :
          /\ \E f \in {BeforeUpdateHook(FWorld, order)} : FCommit(f)
          /\ FCalled("BeforeUpdateHook", 0, 0, NoArgs)

FacadeNext ==
    \/ FNewImage
    \/ FSubImage
    \/ FFill
    \/ FDrawImage
    \/ FDrawTriangles
    \/ FSet
    \/ FAt
    \/ FReplacePixels
    \/ FDispose
    \/ FBeforeUpdateHook

SpecFacade == FacadeInit /\ [][FacadeNext]_vars

-----------------------------------------------------------------------------
(* Properties of package shareable *)

\* the world after the step
WorldNext ==
    [images |-> images', backends |-> backends', theBackends |-> theBackends',
     imagesToMakeShared |-> imagesToMakeShared', minSize |-> minSize',
     maxSize |-> maxSize', onceDone |-> onceDone', rimgs |-> rimgs',
     theImages |-> theImages', forceRestoring |-> forceRestoring',
     driver |-> driver', panicked |-> panicked']

Unallocated(w, i) == w.images[i].backend = 0 /\ w.images[i].node = NoNode

Private(w, i) ==
    /\ w.images[i].backend \in DOMAIN w.backends
    /\ w.backends[w.images[i].backend].page = NoPage
    /\ w.images[i].node = NoNode

Shared(w, i) ==
    /\ w.images[i].backend \in DOMAIN w.backends
    /\ w.backends[w.images[i].backend].page # NoPage
    /\ w.images[i].node # NoNode
    /\ w.images[i].node \in PageNodes(w.backends[w.images[i].backend].page)

\* the rectangles r1 and r2 (<<x, y, w, h>>) have a pixel in common
Overlap(r1, r2) ==
    /\ r1[1] < r2[1] + r2[3] /\ r2[1] < r1[1] + r1[3]
    /\ r1[2] < r2[2] + r2[4] /\ r2[2] < r1[2] + r1[4]

\* C1: after any sequence of operations every image is in exactly one of the
\* states unallocated, private and shared, and the nodes of two distinct
\* shared images of the same backend do not overlap.
C1_ImageStates ==
    /\ \A i \in DOMAIN images :
          Cardinality({ s \in {"unallocated", "private", "shared"} :
                           \/ s = "unallocated" /\ Unallocated(World, i)
                           \/ s = "private" /\ Private(World, i)
                           \/ s = "shared" /\ Shared(World, i) }) = 1
    /\ \A i, j \in DOMAIN images :
          (/\ i # j /\ Shared(World, i) /\ Shared(World, j)
           /\ images[i].backend = images[j].backend)
          => ~Overlap(images[i].node, images[j].node)

\* a draw has returned and left two shared images in one atlas next to a
\* private image
C1_Witness ==
    /\ lastOp.op = "DrawTriangles" /\ panicked = ""
    /\ \E i, j, k \in DOMAIN images :
          /\ i # j /\ Shared(World, i) /\ Shared(World, j)
          /\ images[i].backend = images[j].backend
          /\ Private(World, k)

\* the image i became a candidate for sharing and has not been a target since
Candidate(w, i) ==
    /\ ~w.images[i].disposed /\ w.images[i].backend # 0
    /\ ~isShared(w, i) /\ shareable(w, i)
    /\ (i \in w.imagesToMakeShared \/ w.images[i].nonUpdatedCount > 0)

\* C3: once an image is a candidate, each before-update pass adds one to its
\* nonUpdatedCount (or promotes it at MaxCountForShare), whether or not the
\* image was a source again in the frame that ends.
C3_CountsEveryFrame ==
    [][(lastOp'.op = "BeforeUpdateHook" /\ panicked' = "")
       => \A i \in DOMAIN images :
             Candidate(World, i)
             => \/ images'[i].nonUpdatedCount = images[i].nonUpdatedCount + 1
                \/ /\ images[i].nonUpdatedCount + 1 >= MaxCountForShare
                   /\ Shared(WorldNext, i)]_vars

\* C4: when DrawTriangles returns normally its target is private, has the
\* count 0 and is no candidate; if it was shared, its node is free in its
\* former atlas and the other images of that atlas keep their nodes.
C4_TargetIsPrivate ==
    [][(lastOp'.op = "DrawTriangles" /\ panicked' = "")
       => /\ Private(WorldNext, lastOp'.i)
          /\ images'[lastOp'.i].nonUpdatedCount = 0
          /\ lastOp'.i \notin imagesToMakeShared'
          /\ Shared(World, lastOp'.i)
             => /\ images[lastOp'.i].backend \in DOMAIN backends'
                   => images[lastOp'.i].node
                         \notin PageNodes(backends'[images[lastOp'.i].backend].page)
                /\ \A j \in (DOMAIN images) \ {lastOp'.i} :
                      images[j].backend = images[lastOp'.i].backend
                      => /\ images'[j].backend = images[j].backend
                         /\ images'[j].node = images[j].node
                         /\ Shared(WorldNext, j)]_vars

\* the first call of the program drew the sprite 3 on the sprite 2, both in
\* the atlas of side 2048 until then (the sprites of Started are shared, and
\* those of Loaded are private): 2 is private and 3 is still in the atlas
C4_Witness ==
    /\ lastOp = Op("DrawTriangles", 2, 3) /\ steps = 1 /\ panicked = ""
    /\ Private(World, 2) /\ images[2].nonUpdatedCount = 0
    /\ Shared(World, 3) /\ backends[images[3].backend].page.size = 2048

\* C6: an image NewScreenFramebufferImage returned, or MakeVolatile was
\* called on, has no atlas node in any reachable state.
C6_ScreenAndVolatileNeverShared ==
    \A i \in screenOrVolatile : images[i].node = NoNode

\* a sprite that was in an atlas was made volatile, and a draw, an upload or
\* a before-update pass followed
C6_Witness ==
    /\ lastOp.op \in {"DrawTriangles", "ReplacePixels", "BeforeUpdateHook"}
    /\ panicked = ""
    /\ \E i \in screenOrVolatile :
          /\ images[i].backend # 0
          /\ rimgs[backends[images[i].backend].restorable].volatile
    /\ \E i \in screenOrVolatile :
          /\ images[i].backend # 0
          /\ rimgs[backends[images[i].backend].restorable].screen

\* C2: the sprites of the promotion scenario are private, shareable and have
\* the count 0 when the first frame starts, are drawn to the screen in every
\* frame and are never a target.  None is shared after a pass before the
\* 10th, each is shared after the 10th, and then all are in one backend.
C2_SharedAfterTenFrames ==
    /\ panicked = ""
    /\ \A i \in (DOMAIN images) \ screenOrVolatile :
          /\ frames < MaxCountForShare
             => /\ Private(World, i)
                /\ images[i].nonUpdatedCount = frames
          /\ frames >= MaxCountForShare
             => /\ Shared(World, i)
                /\ \A j \in (DOMAIN images) \ screenOrVolatile :
                      images[j].backend = images[i].backend

\* the 10th pass has just run with minSize 1024: the three sprites are in
\* one atlas
C2_Witness ==
    /\ lastOp.op = "BeforeUpdateHook" /\ frames = MaxCountForShare
    /\ minSize = 1024 /\ panicked = ""
    /\ \A i \in {2, 3, 4} :
          /\ Shared(World, i)
          /\ images[i].backend = images[2].backend
          /\ images[i].width = SpriteSide /\ images[i].height = SpriteSide

\* what At reports for the image i: its non-transparent pixels
Visible(w, i) ==
    IF w.images[i].backend = 0 THEN {}
    ELSE { <<<<c[1] - region(w, i)[1], c[2] - region(w, i)[2]>>,
             at(w, i, c[1] - region(w, i)[1], c[2] - region(w, i)[2])>> :
             c \in { d \in DOMAIN w.rimgs[w.backends[w.images[i].backend].restorable].pix :
                        /\ InRect(d, region(w, i)[1], region(w, i)[2],
                                  region(w, i)[3], region(w, i)[4])
                        /\ at(w, i, d[1] - region(w, i)[1], d[2] - region(w, i)[2])
                              # ZeroPx } }

\* C5: a promotion (a before-update pass that moves images to the atlas) and
\* a demotion (ensureNotShared, here by MakeVolatile) keep At(x, y) of every
\* image for every (x, y), under the same handle; so does every step other
\* than a draw for its target.
C5_PromoteDemoteKeepsPixels ==
    [][\A i \in DOMAIN images :
          (lastOp'.op = "DrawTriangles" => i # lastOp'.i)
          => /\ i \in DOMAIN images'
             /\ images'[i].disposed = images[i].disposed
             /\ images'[i].width = images[i].width
             /\ images'[i].height = images[i].height
             /\ Visible(WorldNext, i) = Visible(World, i)]_vars

\* a sprite a before-update pass moved to the atlas, not at the origin of the
\* page, has just been made private again, and shows its pixels
C5_Witness ==
    /\ lastOp.op = "MakeVolatile" /\ frames >= MaxCountForShare /\ panicked = ""
    /\ Private(World, lastOp.i)
    /\ Visible(World, lastOp.i) # {}
    /\ \E j \in (DOMAIN images) \ {lastOp.i} :
          Shared(World, j) /\ images[j].node[1] = 0 /\ images[j].node[2] = 0

\* C7: a goroutine that is in the body of an exported function that reads or
\* writes theBackends, a page, the backend or the node of an image, or
\* imagesToMakeShared, holds backendsM.
C7_EntryPointsHoldLock ==
    \A g \in Goroutines :
       (pc[g].at = "body" /\ Touches(pc[g].op)) => mutex = g

-----------------------------------------------------------------------------
(* Properties of package restorable *)

\* the positions of the image i in the order of the last restore
Positions(i) == { k \in 1..Len(sorted) : sorted[k] = i }

\* C8: when restore has run, every image with priority is before every image
\* without, the source of every recorded draw between images without
\* priority is before its target, and every registered image is in the order
\* exactly once.
C8_RestoreOrder ==
    (lastOp.op = "RestoreIfNeeded" /\ lastOp.j = 1)
    => /\ panicked = ""
       /\ \A i \in theImages.images : Cardinality(Positions(i)) = 1
       /\ \A k \in 1..Len(sorted) : sorted[k] \in theImages.images
       /\ \A a, b \in 1..Len(sorted) :
             /\ (rimgs[sorted[a]].priority /\ ~rimgs[sorted[b]].priority) => a < b
             /\ (/\ ~rimgs[sorted[a]].priority /\ ~rimgs[sorted[b]].priority
                 /\ sorted[a] \in dependingImages(rimgs[sorted[b]])) => a < b

\* restore has sorted the screen and a chain of three images
C8_Witness ==
    /\ lastOp.op = "RestoreIfNeeded" /\ lastOp.j = 1 /\ panicked = ""
    /\ \E s \in theImages.images : rimgs[s].priority
    /\ \E a, b, c \in theImages.images :
          /\ a \in dependingImages(rimgs[b])
          /\ b \in dependingImages(rimgs[c])
          /\ Positions(a) # {} /\ Positions(c) # {}

\* the textures p1 and p2 have the same pixels
SamePixels(p1, p2) ==
    \A c \in (DOMAIN p1) \cup (DOMAIN p2) : PixAt(p1, c[1], c[2]) = PixAt(p2, c[1], c[2])

\* RestoreIfNeeded has run and every image that is neither volatile nor the
\* screen shows the pixels it showed before
RoundTrip ==
    /\ panicked' = ""
    /\ \A id \in theImages.images :
          (~rimgs[id].volatile /\ ~rimgs[id].screen)
          => /\ id \in DOMAIN rimgs'
             /\ SamePixels(rimgs'[id].pix, rimgs[id].pix)

\* the images the recorded draws took their pixels from are images of the
\* set: none of them is volatile
SourcesNotVolatile ==
    \A i \in theImages.images :
       \A src \in dependingImages(rimgs[i]) \cap DOMAIN rimgs : ~rimgs[src].volatile

C10_SourcesRegistered ==
    /\ \A i \in theImages.images : dependingImages(rimgs[i]) \subseteq theImages.images
    /\ [][/\ \A i \in theImages.images' :
                dependingImages(rimgs'[i]) \subseteq theImages.images'
          /\ lastOp'.op = "Dispose"
             => \A i \in theImages.images \ {lastOp'.i} :
                   lastOp'.i \in dependingImages(rimgs[i])
                   => /\ rimgs'[i].stale
                      /\ dependingImages(rimgs'[i]) = {}]_vars

\* the first image of a chain has been disposed: the second is stale, and
\* the third still refers to the second
C10_Witness ==
    /\ lastOp = Op("Dispose", 2, 0) /\ steps = 1 /\ panicked = ""
    /\ 2 \notin theImages.images
    /\ 3 \in theImages.images /\ rimgs[3].stale
    /\ 4 \in theImages.images /\ dependingImages(rimgs[4]) = {3}

-----------------------------------------------------------------------------
(* Properties of package ebiten *)

FWorldNext ==
    [images |-> images', backends |-> backends', theBackends |-> theBackends',
     imagesToMakeShared |-> imagesToMakeShared', minSize |-> minSize',
     maxSize |-> maxSize', onceDone |-> onceDone', rimgs |-> rimgs',
     theImages |-> theImages', forceRestoring |-> forceRestoring',
     driver |-> driver', panicked |-> panicked',
     ebitenImages |-> ebitenImages', mipmaps |-> mipmaps', isRunning |-> isRunning']

\* the root image r and its sub-images
Family(f, r) == { j \in DOMAIN f.ebitenImages : Root(f, j) = r }

\* the points of the bounds of the image i, which is not disposed
Points(f, i) ==
    { p \in (Bounds(f, i)[1]..(Bounds(f, i)[3] - 1)) \X (Bounds(f, i)[2]..(Bounds(f, i)[4] - 1)) :
        TRUE }

\* what j.At(x, y) returns in the state f of the program
Read(f, j, x, y) == EAt(f, j, x, y).c

\* the call was i.name(...) and the image i was not disposed before it
CalledOn(name) ==
    /\ lastOp'.op = name
    /\ lastOp'.i \in DOMAIN ebitenImages
    /\ ~isDisposed(FWorld, lastOp'.i)

C12_ReplacePixelsThenAt ==
    [][(CalledOn("ReplacePixels") /\ isRunning /\ ~isSubImage(FWorld, lastOp'.i)
        /\ lastArgs'.p.len = 4 * Dx(Bounds(FWorld, lastOp'.i)) * Dy(Bounds(FWorld, lastOp'.i)))
       => /\ panicked' = ""
          /\ ebitenImages'[lastOp'.i].pendingPixels = NilBytes
          /\ \A q \in Points(FWorld, lastOp'.i) :
                Read(FWorldNext, lastOp'.i, q[1], q[2]) =
                   PixelOfBytes(lastArgs'.p, q[1] + q[2] * Dx(Bounds(FWorld, lastOp'.i)))
          /\ isShared(FWorld, original(FWorld, lastOp'.i))
             => isShared(FWorldNext, original(FWorldNext, lastOp'.i))]_vars

\* the pixels of the image 2, which is on the atlas and had the pixel (1, 1)
\* set, have been replaced (the pixel set on the image 4 is still pending)
C12_Witness ==
    /\ lastOp = Op("ReplacePixels", 2, 0) /\ steps = 1 /\ panicked = ""
    /\ lastArgs.p = Gradient(16, 1)
    /\ ebitenImages[4].pendingPixels # NilBytes
    /\ ebitenImages[2].pendingPixels = NilBytes
    /\ isShared(FWorld, original(FWorld, 2))
    /\ Read(FWorld, 2, 1, 1) = <<6, 1, 0, 255>>

\* C13 as stated: At of a sub-image takes coordinates relative to the
\* sub-image; s.At(x, y) is the pixel (r.Min.X + x, r.Min.Y + y) of the
\* original, for every sub-image s that is not disposed and every point
\* (r.Min.X + x, r.Min.Y + y) of its bounds r.
C13_SubImageReadsRelative ==
    \A s \in DOMAIN ebitenImages :
        (isRunning /\ panicked = "" /\ isSubImage(FWorld, s) /\ ~isDisposed(FWorld, s))
        => \A q \in Points(FWorld, s) :
              Read(FWorld, s, q[1] - Bounds(FWorld, s)[1], q[2] - Bounds(FWorld, s)[2]) =
                 Read(FWorld, Root(FWorld, s), q[1], q[2])

\* C13: At of a sub-image takes the coordinates of the original; s.At(x, y)
\* is the pixel (x, y) of the original when (x, y) is in the bounds of s and
\* zero when it is not, for every sub-image s that is not disposed.
C13_SubImageReadsAbsolute ==
    \A s \in DOMAIN ebitenImages :
        (isRunning /\ panicked = "" /\ isSubImage(FWorld, s) /\ ~isDisposed(FWorld, s))
        => \A q \in Points(FWorld, Root(FWorld, s)) :
              Read(FWorld, s, q[1], q[2]) =
                 IF PtIn(q[1], q[2], Bounds(FWorld, s))
                 THEN Read(FWorld, Root(FWorld, s), q[1], q[2])
                 ELSE ZeroPx

\* the sub-image 3 of (1,1)-(3,3) of the image 2 of 4x4: At(1, 1) is the
\* pixel (1, 1) of the image 2, At(0, 0) is zero, and the pixel (0, 0) of
\* the image 2 is not
C13_Witness ==
    /\ panicked = "" /\ isRunning
    /\ ~isDisposed(FWorld, 3) /\ ebitenImages[3].bounds = <<1, 1, 3, 3>>
    /\ lastOp = Op("At", 3, 0) /\ lastArgs.x = 0 /\ lastArgs.y = 0
    /\ lastArgs.ret = ZeroPx
    /\ Read(FWorld, 3, 1, 1) = <<2, 2, 0, 255>>
    /\ Read(FWorld, 2, 1, 1) = <<2, 2, 0, 255>>
    /\ Read(FWorld, 2, 0, 0) = <<1, 1, 0, 255>>

\* C14: sub-images are read-only; on a sub-image that is not disposed each
\* of Fill, DrawImage, DrawTriangles and ReplacePixels panics, and no call
\* made on a sub-image that returns changes what At returns on its root
\* image.
C14_SubImagesReadOnly ==
    [][(lastOp'.i \in DOMAIN ebitenImages /\ isRunning
        /\ isSubImage(FWorld, lastOp'.i) /\ ~isDisposed(FWorld, lastOp'.i))
       => /\ lastOp'.op \in {"Fill", "DrawImage", "DrawTriangles", "ReplacePixels"}
             => panicked' # ""
          /\ panicked' = ""
             => \A q \in Points(FWorld, Root(FWorld, lastOp'.i)) :
                   Read(FWorldNext, Root(FWorld, lastOp'.i), q[1], q[2]) =
                      Read(FWorld, Root(FWorld, lastOp'.i), q[1], q[2])]_vars

\* the part of C14 about the panics alone
C14_RenderToSubImagePanics ==
    [][(lastOp'.i \in DOMAIN ebitenImages /\ isRunning
        /\ isSubImage(FWorld, lastOp'.i) /\ ~isDisposed(FWorld, lastOp'.i)
        /\ lastOp'.op \in {"Fill", "DrawImage", "DrawTriangles", "ReplacePixels"})
       => panicked' # ""]_vars

\* the call was made on an image that was disposed before it
CalledOnDisposed ==
    /\ lastOp'.i \in DOMAIN ebitenImages
    /\ isRunning
    /\ isDisposed(FWorld, lastOp'.i)

\* C15: after Dispose on a root image, in every later state At returns zero
\* for the root and for every sub-image of it, the mutators Fill, DrawImage,
\* DrawTriangles (the image being the target), ReplacePixels and Set return
\* without a panic and change nothing, and Dispose of the root or of a
\* sub-image changes nothing.
C15_DisposedIsInert ==
    [][CalledOnDisposed
       => /\ lastOp'.op \in {"Fill", "DrawImage", "DrawTriangles", "ReplacePixels",
                             "Set", "Dispose", "At"}
             => FWorldNext = FWorld
          /\ lastOp'.op = "At" => lastArgs'.ret = ZeroPx
          /\ isDisposed(FWorldNext, lastOp'.i)]_vars

\* C15 without the calls of DrawImage whose source is disposed
C15_DisposedIsInertForLiveSources ==
    [][(CalledOnDisposed
        /\ ~(lastOp'.op = "DrawImage" /\ isDisposed(FWorld, lastOp'.j)))
       => /\ lastOp'.op \in {"Fill", "DrawImage", "DrawTriangles", "ReplacePixels",
                             "Set", "Dispose", "At"}
             => FWorldNext = FWorld
          /\ lastOp'.op = "At" => lastArgs'.ret = ZeroPx
          /\ isDisposed(FWorldNext, lastOp'.i)]_vars

\* C16: when the target i is disposed, i.DrawImage(img, options) returns
\* without a panic and changes nothing, for every source img (a disposed
\* image and i itself included) and every options.
C16_DrawImageOnDisposedTarget ==
    [][(CalledOnDisposed /\ lastOp'.op = "DrawImage")
       => FWorldNext = FWorld]_vars

\* C16 for the sources that are not disposed
C16_DrawImageOfLiveSourceOnDisposedTarget ==
    [][(CalledOnDisposed /\ lastOp'.op = "DrawImage" /\ ~isDisposed(FWorld, lastOp'.j))
       => FWorldNext = FWorld]_vars

\* C17: for every root image i that is not disposed and every options,
\* i.DrawImage(i, options) panics.
C17_SelfDrawPanics ==
    [][(CalledOn("DrawImage") /\ lastOp'.j = lastOp'.i /\ ~isSubImage(FWorld, lastOp'.i))
       => panicked' # ""]_vars

\* C17 for the options with which DrawImage draws from the level 0 of the
\* source: a matrix whose determinant is a number other than 0, a filter
\* other than the linear one, and no SourceRect outside the image
C17_SelfDrawFromLevel0Panics ==
    [][(CalledOn("DrawImage") /\ lastOp'.j = lastOp'.i /\ ~isSubImage(FWorld, lastOp'.i)
        /\ lastArgs'.options \in {<<>>, <<[DefaultOptions EXCEPT !.SourceRect = <<1, 1, 2, 2>>]>>})
       => panicked' # ""]_vars

\* the determinant of the matrix of the options is 0 or not a number
ZeroDet(options) ==
    /\ options # <<>>
    /\ options[1].GeoM.nan \/ det(options[1].GeoM) = 0

\* unallocated, private or shared (on an atlas), for an image of package
\* ebiten
AllocState(f, h) ==
    IF isDisposed(f, h) THEN "disposed"
    ELSE IF f.images[original(f, h)].backend = 0 THEN "unallocated"
    ELSE IF isShared(f, original(f, h)) THEN "shared"
    ELSE "private"

\* the pixels At reads on the image h are the same in f and g
SameReads(f, g, h) ==
    isDisposed(f, h) \/ \A q \in Points(f, h) : Read(g, h, q[1], q[2]) = Read(f, h, q[1], q[2])

\* the call was DrawImage with a matrix whose determinant is 0 or NaN
ZeroDetDraw == 
    /\ lastOp'.op = "DrawImage"
    /\ lastOp'.i \in DOMAIN ebitenImages
    /\ isRunning
    /\ ZeroDet(lastArgs'.options)

\* C18 as stated: DrawImage with a matrix whose determinant is 0 or NaN
\* returns without a panic and leaves the pixels At reads on the target and
\* the source, the unallocated/private/shared state of both, the target's
\* nonUpdatedCount, the set of candidates and the target's mipmap levels as
\* they were.
C18_ZeroDetIsNoOp ==
    [][ZeroDetDraw
       => /\ panicked' = ""
          /\ \A h \in {lastOp'.i, lastOp'.j} :
                /\ SameReads(FWorld, FWorldNext, h)
                /\ AllocState(FWorldNext, h) = AllocState(FWorld, h)
          /\ imagesToMakeShared' = imagesToMakeShared
          /\ ~isDisposed(FWorld, lastOp'.i)
             => /\ images'[original(FWorld, lastOp'.i)].nonUpdatedCount =
                      images[original(FWorld, lastOp'.i)].nonUpdatedCount
                /\ mipmaps'[ebitenImages[lastOp'.i].mipmap].levels =
                      mipmaps[ebitenImages[lastOp'.i].mipmap].levels]_vars

\* C18: DrawImage of a source that is not disposed on a target that is a root
\* image or is disposed, with a matrix whose determinant is 0 or NaN, returns
\* without a panic and leaves the pixels At reads on the target and the
\* source, the target's nonUpdatedCount and the set of candidates as they
\* were; when neither the target nor the source has pixels of Set pending, it
\* changes nothing: the unallocated/private/shared state of both and the
\* target's mipmap levels are as they were too.
C18_ZeroDetIsNoOpWithoutPending ==
    [][(ZeroDetDraw /\ ~isDisposed(FWorld, lastOp'.j)
        /\ (isDisposed(FWorld, lastOp'.i) \/ ~isSubImage(FWorld, lastOp'.i)))
       => /\ panicked' = ""
          /\ \A h \in {lastOp'.i, lastOp'.j} : SameReads(FWorld, FWorldNext, h)
          /\ imagesToMakeShared' = imagesToMakeShared
          /\ ~isDisposed(FWorld, lastOp'.i)
             => images'[original(FWorld, lastOp'.i)].nonUpdatedCount =
                   images[original(FWorld, lastOp'.i)].nonUpdatedCount
          /\ (\A h \in {lastOp'.i, lastOp'.j} :
                 ebitenImages[Root(FWorld, h)].pendingPixels = NilBytes)
             => /\ FWorldNext = FWorld
                /\ \A h \in {lastOp'.i, lastOp'.j} :
                      AllocState(FWorldNext, h) = AllocState(FWorld, h)
                /\ mipmaps'[ebitenImages[lastOp'.i].mipmap].levels =
                      mipmaps[ebitenImages[lastOp'.i].mipmap].levels]_vars

\* the image 2, which has the image of a mipmap level and is on the atlas,
\* has been the target of a draw of the image 4 with a matrix whose
\* determinant is 0: it has the level still and is on the atlas, and the
\* image 4 is a candidate as it was
C18_Witness ==
    /\ lastOp = Op("DrawImage", 2, 4) /\ steps = 1 /\ panicked = ""
    /\ lastArgs.options # <<>> /\ ~lastArgs.options[1].GeoM.nan
    /\ det(lastArgs.options[1].GeoM) = 0
    /\ mipmaps[ebitenImages[2].mipmap].levels # NoLevels
    /\ AllocState(FWorld, 2) = "shared"
    /\ AllocState(FWorld, 4) = "private"
    /\ ebitenImages[2].pendingPixels = NilBytes
    /\ ebitenImages[4].pendingPixels = NilBytes

\* the call was DrawImage, of a source that is not disposed on a root image
\* that is not disposed and is not the root of the source, and the bounds of
\* the source, or their intersection with the SourceRect of the options, are
\* empty
EmptySourceDraw ==
    /\ CalledOn("DrawImage")
    /\ isRunning
    /\ ~isSubImage(FWorld, lastOp'.i)
    /\ ~isDisposed(FWorld, lastOp'.j)
    /\ Root(FWorld, lastOp'.j) # lastOp'.i
    /\ \/ Empty(Bounds(FWorld, lastOp'.j))
       \/ /\ lastArgs'.options # <<>>
          /\ lastArgs'.options[1].SourceRect # <<>>
          /\ Empty(Intersect(Bounds(FWorld, lastOp'.j), lastArgs'.options[1].SourceRect))

\* no draw was issued on the image of the call: an image on the atlas is
\* still there, and its nonUpdatedCount and the set of candidates are as
\* they were
NoDrawIssued ==
    /\ panicked' = ""
    /\ AllocState(FWorld, lastOp'.i) = "shared" => AllocState(FWorldNext, lastOp'.i) = "shared"
    /\ images'[original(FWorld, lastOp'.i)].nonUpdatedCount =
          images[original(FWorld, lastOp'.i)].nonUpdatedCount
    /\ imagesToMakeShared' = imagesToMakeShared

\* C19: DrawImage of a source whose bounds are empty (a sub-image of an empty
\* rectangle, or an empty intersection with SourceRect) is a silent no-op:
\* no draw is issued, so a target on the atlas stays there and the target's
\* nonUpdatedCount and the set of candidates are as they were.
C19_EmptySourceIsNoOp ==
    [][EmptySourceDraw => NoDrawIssued]_vars

\* C19 for the SourceRect alone
C19_EmptySourceRectIsNoOp ==
    [][(EmptySourceDraw /\ ~Empty(Bounds(FWorld, lastOp'.j))) => NoDrawIssued]_vars

\* the call was DrawTriangles with a number of indices that is not a
\* multiple of 3 or is more than MaxIndicesNum
BadIndices ==
    /\ lastOp'.op = "DrawTriangles"
    /\ lastOp'.i \in DOMAIN ebitenImages
    /\ lastArgs'.n % 3 # 0 \/ lastArgs'.n > MaxIndicesNum

\* C20 as stated: for every target, source and options, DrawTriangles
\* panics when len(indices) is not a multiple of 3 or is more than
\* MaxIndicesNum.
C20_BadIndicesPanic ==
    [][BadIndices => panicked' # ""]_vars

\* C20: for every target that is not disposed and every source and options,
\* DrawTriangles panics when len(indices) is not a multiple of 3 or is more
\* than MaxIndicesNum; on a disposed target it returns and changes nothing.
C20_BadIndicesPanicUnlessDisposed ==
    [][BadIndices
       => IF isDisposed(FWorld, lastOp'.i) THEN FWorldNext = FWorld
          ELSE panicked' # ""]_vars

\* DrawTriangles with 5 indices on the image 2, a root image that is not
\* disposed, has panicked
C20_Witness ==
    /\ lastOp = Op("DrawTriangles", 2, 4) /\ lastArgs.n = 5
    /\ ~isDisposed(FWorld, 2) /\ ~isSubImage(FWorld, 2)
    /\ panicked = "ebiten: len(indices) % 3 must be 0"

\* the sizes for which the documentation of NewImage promises a panic
BadSize(width, height) ==
    width < 1 \/ height < 1 \/ width > MaxImageSize \/ height > MaxImageSize

\* C21: NewImage panics whenever the width or the height is less than 1 or
\* more than MaxImageSize, and otherwise returns an image whose every pixel
\* reads as zero.
C21_NewImageChecksSize ==
    [][lastOp'.op = "NewImage"
       => IF BadSize(lastArgs'.x, lastArgs'.y)
          THEN panicked' # ""
          ELSE /\ panicked' = ""
               /\ \A x \in 0..(lastArgs'.x - 1), y \in 0..(lastArgs'.y - 1) :
                     Read(FWorldNext, lastOp'.i, x, y) = ZeroPx]_vars

\* NewImage returns an image that reads as zero when the size is a good one
C21_NewImageOfGoodSizeIsZero ==
    [][(lastOp'.op = "NewImage" /\ ~BadSize(lastArgs'.x, lastArgs'.y))
       => /\ panicked' = ""
          /\ lastOp'.i \in DOMAIN ebitenImages'
          /\ \A x \in 0..(lastArgs'.x - 1), y \in 0..(lastArgs'.y - 1) :
                Read(FWorldNext, lastOp'.i, x, y) = ZeroPx]_vars

-----------------------------------------------------------------------------
(* Properties of the allocation of package shareable *)

\* the atlases: the backends that have a page
Atlases(w) == { b \in DOMAIN w.backends : w.backends[b].page # NoPage }

\* the sizes the first before-update hook gives minSize and maxSize
SizesFor(d) ==
    IF d.hasHighPrecisionFloat THEN <<1024, Min(4096, d.maxImageSize)>>
    ELSE <<512, 512>>

\* minSize and maxSize are 0 until the first before-update hook, which sets
\* them to the sizes of the driver, and never change afterwards
SizesSetOnce ==
    /\ onceDone => (minSize' = minSize /\ maxSize' = maxSize)
    /\ (~onceDone /\ lastOp'.op # "BeforeUpdateHook") => (minSize' = 0 /\ maxSize' = 0)
    /\ (~onceDone /\ lastOp'.op = "BeforeUpdateHook" /\ panicked' = "")
       => <<minSize', maxSize'>> = SizesFor(driver)

\* an atlas the step made for one image has the side max(minSize, smallest
\* power of two >= max(width, height))
NewAtlasSide ==
    \A b \in Atlases(WorldNext) \ DOMAIN backends :
    \A i \in DOMAIN images' :
       (/\ images'[i].backend = b
        /\ \A j \in (DOMAIN images') \ {i} : images'[j].backend # b)
       => backends'[b].page.size
             = Max(minSize', Pow2(CeilLog2(Max(images'[i].width, images'[i].height), 0)))

\* the side of every atlas page is between minSize and maxSize
PageSidesWithinSizes(w) ==
    \A b \in Atlases(w) :
       w.minSize <= w.backends[b].page.size /\ w.backends[b].page.size <= w.maxSize

\* C22: minSize and maxSize are set exactly once, by the first before-update
\* hook, to (1024, min(4096, driver.MaxImageSize)) with high-precision floats
\* and to (512, 512) without; a new atlas has the side max(minSize, smallest
\* power of two >= max(w, h)); and the side of every atlas page is between
\* minSize and maxSize in every reachable state.
C22_AtlasSizes ==
    [][SizesSetOnce /\ NewAtlasSide /\ PageSidesWithinSizes(WorldNext)]_vars

\* the sizes are set once and a new atlas has the side the claim gives
C22_SizesSetOnceAndNewAtlasSide == [][SizesSetOnce /\ NewAtlasSide]_vars

\* the atlas pages are within the sizes when the driver accepts 1024 or more
C22_PageSidesWithinSizesOfLargeDriver ==
    (driver.hasHighPrecisionFloat => driver.maxImageSize >= 1024)
    => PageSidesWithinSizes(World)

\* the images the step put in the backend b
NewIn(b) ==
    { i \in DOMAIN images' :
         images'[i].backend = b /\ (i \in DOMAIN images => images[i].backend # b) }

\* the images that were shared in b and that the step did not demote or dispose
StayedIn(b) ==
    { j \in DOMAIN images :
         /\ images[j].backend = b
         /\ ~(lastOp'.op \in {"DrawTriangles", "MakeVolatile", "Dispose"} /\ lastOp'.i = j) }

\* a request of width x height fits the page after k doublings
FitsAfter(page, k, width, height) ==
    /\ \A l \in 1..k : PageExtend(ExtendTimes(page, l - 1)).ok
    /\ PageAlloc(ExtendTimes(page, k), width, height).ok

\* the texture of every atlas has the side of its page
TextureSideIsPageSide(w) ==
    \A b \in Atlases(w) :
       /\ w.rimgs[w.backends[b].restorable].width = w.backends[b].page.size
       /\ w.rimgs[w.backends[b].restorable].height = w.backends[b].page.size

\* the step allocated one image in the atlas b and the page of b has grown
Extended(b, i) ==
    /\ b \in Atlases(World) \cap Atlases(WorldNext)
    /\ backends'[b].page.size # backends[b].page.size
    /\ NewIn(b) = {i}

\* the step allocated the image i in an atlas other than b, and the request
\* fits the page of the atlas b after no number of doublings
Refused(b, i) ==
    /\ b \in Atlases(World) /\ i \in DOMAIN images
    /\ images[i].backend = 0
    /\ images'[i].node # NoNode /\ images'[i].backend # b
    /\ \A k \in 0..CeilLog2(maxSize, 0) :
          ~FitsAfter(backends[b].page, k, images[i].width, images[i].height)

\* C23: when TryAlloc cannot place a request in the page but the page can
\* grow, the page is extended by the least number of doublings after which
\* the request fits, the texture of the backend is extended to the side of
\* the page (the two sides are equal in every reachable state), the nodes
\* allocated before keep their regions and the allocation succeeds; when the
\* request fits after no number of doublings, the page and the texture are
\* unchanged.
C23_TryAllocExtends ==
    [][/\ TextureSideIsPageSide(WorldNext)
       /\ \A b \in DOMAIN backends, i \in DOMAIN images' :
             Extended(b, i)
             => /\ panicked' # "shareable: Alloc result must not be nil at TryAlloc"
                /\ LET n == CeilLog2(backends'[b].page.size \div backends[b].page.size, 0)
                   IN  /\ backends'[b].page.size = backends[b].page.size * Pow2(n)
                       /\ FitsAfter(backends[b].page, n, images'[i].width, images'[i].height)
                       /\ \A l \in 0..(n - 1) :
                             ~FitsAfter(backends[b].page, l, images'[i].width,
                                        images'[i].height)
                /\ images'[i].node \in PageNodes(backends'[b].page)
                /\ images'[i].node \notin PageNodes(backends[b].page)
                /\ \A j \in StayedIn(b) :
                      /\ images'[j].backend = b /\ images'[j].node = images[j].node
                      /\ images'[j].node \in PageNodes(backends'[b].page)
       /\ \A b \in DOMAIN backends, i \in DOMAIN images :
             (Refused(b, i) /\ StayedIn(b) = { j \in DOMAIN images : images[j].backend = b })
             => /\ b \in DOMAIN backends'
                /\ backends'[b] = backends[b]
                /\ rimgs'[backends[b].restorable].width = rimgs[backends[b].restorable].width
                /\ rimgs'[backends[b].restorable].height
                      = rimgs[backends[b].restorable].height]_vars

\* a write to a sprite of 1500x1500 has doubled twice the atlas of side 1024
\* that holds a sprite of 600x600, which keeps its node
C23_Witness ==
    /\ panicked = "" /\ lastOp.op \in {"ReplacePixels", "DrawTriangles"}
    /\ \E b \in Atlases(World), i, j \in DOMAIN images :
          /\ i # j /\ images[i].backend = b /\ images[j].backend = b
          /\ images[i].width = 1500 /\ images[j].width = 600
          /\ images[j].node = <<0, 0, 600, 600>>
          /\ backends[b].page.size = 4096
          /\ rimgs[backends[b].restorable].width = 4096

\* a write to a second sprite of 300x300 found no room in the atlas of side
\* 512, which cannot grow, and made a second atlas
C23_WitnessRefused ==
    /\ panicked = "" /\ lastOp.op \in {"ReplacePixels", "DrawTriangles"}
    /\ Len(theBackends) = 2 /\ maxSize = 512
    /\ \A k \in 1..2 : backends[theBackends[k]].page.size = 512

\* the image i has a private backend whose texture has exactly its size
PrivateExact(w, i) ==
    /\ Private(w, i)
    /\ w.rimgs[w.backends[w.images[i].backend].restorable].width = w.images[i].width
    /\ w.rimgs[w.backends[w.images[i].backend].restorable].height = w.images[i].height

\* the indices of the backends of theBackends whose TryAlloc succeeds for the
\* image i
Fitting(i) ==
    { k \in 1..Len(theBackends) :
         TryAlloc(World, theBackends[k], images[i].width, images[i].height).ok }

\* the step placed the image i in the first backend of theBackends, in the
\* order of the list, whose TryAlloc succeeds, and appended a new atlas for
\* it only when every TryAlloc failed
FirstFit(i) ==
    /\ Shared(WorldNext, i)
    /\ IF Fitting(i) # {}
       THEN /\ images'[i].backend
                  = theBackends[CHOOSE k \in Fitting(i) : \A l \in Fitting(i) : k <= l]
            /\ Atlases(WorldNext) \subseteq Atlases(World)
       ELSE /\ images'[i].backend \notin DOMAIN backends
            /\ images'[i].backend = theBackends'[Len(theBackends')]
            /\ NewIn(images'[i].backend) = {i}

\* the image i exists, is not disposed and has no backend
Lazy(i) == i \in DOMAIN images /\ ~images[i].disposed /\ images[i].backend = 0

\* the step was the call name of the image i that returned normally
Returned(name, i) == lastOp'.op = name /\ lastOp'.i = i /\ panicked' = ""

\* the step used the image i as the source of a draw on another image
DrawnFrom(i) == lastOp'.op = "DrawTriangles" /\ lastOp'.j = i /\ panicked' = ""

\* the first write of the image i, by an upload, gave it the backend the
\* claim describes
FirstUpload(i) ==
    (Lazy(i) /\ Returned("ReplacePixels", i))
    => IF shareable(World, i) THEN FirstFit(i) ELSE PrivateExact(WorldNext, i)

Listed(w) == { w.theBackends[k] : k \in 1..Len(w.theBackends) }

\* the images that hold a node of the atlas b
Hosted(w, b) ==
    { i \in DOMAIN w.images : w.images[i].backend = b /\ w.images[i].node # NoNode }

\* the region r of the texture of the atlas b has only zero pixels
Cleared(w, b, r) ==
    \A c \in DOMAIN w.rimgs[w.backends[b].restorable].pix :
       InRect(c, r[1], r[2], r[3], r[4])
       => w.rimgs[w.backends[b].restorable].pix[c] = ZeroPx

\* the step freed the node the image i held in the atlas b: by Dispose or by
\* a demotion
Freed(i, b) ==
    /\ i \in DOMAIN images /\ images[i].backend = b /\ images[i].node # NoNode
    /\ b \in Listed(World)
    /\ images'[i].node = NoNode
    /\ panicked' = ""

\* what the step that freed the node of i in b did to the atlas: it left the
\* list and lost its texture exactly when it hosts no image any more, and the
\* region of the node is cleared when it stays
FreedAtlas(i, b) ==
    /\ b \in Listed(WorldNext) <=> Hosted(WorldNext, b) # {}
    /\ b \notin Listed(WorldNext) => backends[b].restorable \notin DOMAIN rimgs'
    /\ b \in Listed(WorldNext)
       => /\ backends'[b].restorable \in DOMAIN rimgs'
          /\ Cleared(WorldNext, b, images[i].node)

\* C25: between the entry points, theBackends holds exactly the atlases that
\* host at least one image that is not disposed; an atlas leaves theBackends
\* and its texture is disposed exactly when its last node is freed by Dispose
\* or by a demotion, and the region of a node freed in an atlas that stays
\* occupied is cleared to zero pixels.
C25_TheBackendsAreLiveAtlases ==
    [][panicked' = ""
       => /\ Listed(WorldNext)
                = { b \in Atlases(WorldNext) :
                       \E i \in Hosted(WorldNext, b) : ~images'[i].disposed }
          /\ \A i \in DOMAIN images, b \in DOMAIN backends :
                Freed(i, b) => FreedAtlas(i, b)
          /\ \A b \in Listed(World) \ Listed(WorldNext) :
                \E i \in DOMAIN images : Freed(i, b)]_vars

\* the same with the images that are disposed counted as occupants
C25_TheBackendsAreOccupiedAtlases ==
    [][panicked' = ""
       => /\ Listed(WorldNext)
                = { b \in Atlases(WorldNext) : Hosted(WorldNext, b) # {} }
          /\ \A i \in DOMAIN images, b \in DOMAIN backends :
                Freed(i, b) => FreedAtlas(i, b)
          /\ \A b \in Listed(World) \ Listed(WorldNext) :
                \E i \in DOMAIN images : Freed(i, b)]_vars

\* the backends the images and the list theBackends refer to
Referenced(w) ==
    ({ w.images[i].backend : i \in DOMAIN w.images } \ {0}) \cup Listed(w)

\* what a disposal would free is there to be freed, and has one owner: every
\* backend in use has a texture that is not disposed, no two backends have
\* the same texture, the node an image holds is an allocated node of the page
\* of its backend, no two images hold the same node, and no two images have
\* the same private backend
OneOwner(w) ==
    /\ \A b \in Referenced(w) :
          b \in DOMAIN w.backends /\ w.backends[b].restorable \in DOMAIN w.rimgs
    /\ \A b, c \in Referenced(w) :
          b # c => w.backends[b].restorable # w.backends[c].restorable
    /\ \A i \in DOMAIN w.images :
          w.images[i].node # NoNode
          => /\ w.images[i].backend \in Atlases(w)
             /\ w.images[i].node \in PageNodes(w.backends[w.images[i].backend].page)
    /\ \A i, j \in DOMAIN w.images :
          (i # j /\ w.images[i].backend # 0 /\ w.images[i].backend = w.images[j].backend)
          => /\ w.images[i].node # NoNode /\ w.images[j].node # NoNode
             /\ w.images[i].node # w.images[j].node

-----------------------------------------------------------------------------
(* Properties of restore: termination *)

\* the images restore sorts in its loop: the registered images without priority
restoreImages(w) == { i \in w.theImages.images : ~w.rimgs[i].priority }

RECURSIVE DependsWithin(_, _, _, _)
\* the image t depends on the image s by a chain of at most n recorded draws
DependsWithin(w, s, t, n) ==
    /\ n > 0
    /\ t \in DOMAIN w.rimgs
    /\ \/ s \in dependingImages(w.rimgs[t])
       \/ \E m \in dependingImages(w.rimgs[t]) : DependsWithin(w, s, m, n - 1)

\* the draw histories of the images without priority have no cycle
HistoryAcyclic(w) ==
    \A i \in restoreImages(w) :
       ~DependsWithin(w, i, i, Cardinality(DOMAIN w.rimgs))

\* no history of an image without priority refers to a priority image or to
\* an image that is not registered
SourcesAreSorted(w) ==
    \A t \in restoreImages(w) : dependingImages(w.rimgs[t]) \subseteq restoreImages(w)

RECURSIVE EveryPassRemoves(_, _)
\* each pass of the loop of restore finds an image without an incoming edge
EveryPassRemoves(imgs, edges) ==
    \/ imgs = {}
    \/ /\ restoreCurrent(imgs, edges) # {}
       /\ EveryPassRemoves(imgs \ restoreCurrent(imgs, edges),
                           { e \in edges : e.source \notin restoreCurrent(imgs, edges) })

\* C27: in every reachable state in which restoring is needed, the histories
\* of the registered images without priority have no cycle and refer to
\* registered images without priority only, so each pass of the loop of
\* restore removes an image and restore returns; a call of RestoreIfNeeded
\* that reached restore has returned with every registered image sorted.
C27_RestoreTerminates ==
    /\ (panicked = "" /\ needsRestoring(World))
       => /\ HistoryAcyclic(World)
          /\ SourcesAreSorted(World)
          /\ EveryPassRemoves(restoreImages(World),
                              restoreEdges(World, restoreImages(World)))
    /\ panicked # "restorable: restore does not return"
    /\ (lastOp = Op("RestoreIfNeeded", 0, 1) /\ panicked = "")
       => /\ \A k \in 1..Len(sorted) : sorted[k] # 0
          /\ { sorted[k] : k \in 1..Len(sorted) } = theImages.images

\* restore has sorted two images of which one was drawn from the other, in
\* two passes of its loop
C27_Witness ==
    /\ lastOp = Op("RestoreIfNeeded", 0, 1) /\ panicked = ""
    /\ \E s, t \in restoreImages(World) :
          /\ s \in dependingImages(rimgs[t])
          /\ \E k, l \in 1..Len(sorted) : k < l /\ sorted[k] = s /\ sorted[l] = t

-----------------------------------------------------------------------------
(* Properties of the disposed and of the volatile images of package         *)
(* shareable                                                                *)

\* C28: a disposed image holds no backend and no node, in every state of a
\* program that has not panicked.
C28_DisposedHoldsNothing ==
    panicked = ""
    => \A i \in DOMAIN images :
          images[i].disposed => (images[i].backend = 0 /\ images[i].node = NoNode)

\* the images of imagesToMakeShared a pass of makeImagesShared would move to
\* an atlas: they reach MaxCountForShare and have a private backend
Promoted(w) ==
    { i \in w.imagesToMakeShared :
         /\ w.images[i].nonUpdatedCount + 1 >= MaxCountForShare
         /\ w.images[i].backend # 0 /\ ~isShared(w, i) }

\* C29: makeShared never panics for an image that is not shareable: every
\* image a pass of makeImagesShared would move to an atlas is shareable.
C29_MakeSharedOfShareable ==
    /\ panicked # "shareable: makeShared cannot be called on a non-shareable image"
    /\ \A i \in Promoted(World) : shareable(World, i)

-----------------------------------------------------------------------------
(* Properties of Set outside the bounds *)

\* C30: for a root image that is not disposed, Set(x, y, c) with (x, y)
\* outside the bounds of the image changes no pixel: when the call returns,
\* At of every point of the image is what it was before the call.
C30_SetOutsideChangesNothing ==
    [][(CalledOn("Set") /\ isRunning /\ ~isSubImage(FWorld, lastOp'.i)
        /\ ~PtIn(lastArgs'.x, lastArgs'.y, Bounds(FWorld, lastOp'.i))
        /\ panicked' = "")
       => \A p \in Points(FWorld, lastOp'.i) :
             Read(FWorldNext, lastOp'.i, p[1], p[2]) = Read(FWorld, lastOp'.i, p[1], p[2])]_vars

-----------------------------------------------------------------------------
(* ReplacePixels on the images NewImage ought to return *)

\* the statement of C12 for the images whose width and height are at least 1
\* and at most MaxImageSize
C12_ReplacePixelsThenAtOfGoodSize ==
    [][(CalledOn("ReplacePixels") /\ isRunning /\ ~isSubImage(FWorld, lastOp'.i)
        /\ ~BadSize(Dx(Bounds(FWorld, lastOp'.i)), Dy(Bounds(FWorld, lastOp'.i)))
        /\ lastArgs'.p.len = 4 * Dx(Bounds(FWorld, lastOp'.i)) * Dy(Bounds(FWorld, lastOp'.i)))
       => /\ panicked' = ""
          /\ ebitenImages'[lastOp'.i].pendingPixels = NilBytes
          /\ \A q \in Points(FWorld, lastOp'.i) :
                Read(FWorldNext, lastOp'.i, q[1], q[2]) =
                   PixelOfBytes(lastArgs'.p, q[1] + q[2] * Dx(Bounds(FWorld, lastOp'.i)))
          /\ isShared(FWorld, original(FWorld, lastOp'.i))
             => isShared(FWorldNext, original(FWorldNext, lastOp'.i))]_vars

-----------------------------------------------------------------------------
(* The lock backendsM: a goroutine that calls a function of package         *)
(* shareable that locks waits in backendsM.Lock() until the mutex is free,  *)
(* and the deferred backendsM.Unlock() runs when the function returns and   *)
(* when it panics.                                                          *)

\* makeShared that uploads the pixels with ReplacePixels for replacePixels
CallsOfReplacePixels(op) ==
    CASE op \in {"BeforeUpdateHook", "MakeImagesSharedForTesting"} ->
            {"NewImage", "ReplacePixels"}
      [] op = "DrawTriangles" -> {"PutVertex"}
      [] OTHER -> {}

\* the exported functions of the package that the code of the function op
\* calls, directly or through the functions that are not exported: makeShared
\* calls NewImage, and ensureNotShared has graphics.PutQuadVertices call
\* PutVertex of the image
Calls(op) ==
    CASE op \in {"BeforeUpdateHook", "MakeImagesSharedForTesting"} -> {"NewImage"}
      [] op = "DrawTriangles" -> {"PutVertex"}
      [] OTHER -> {}

\* the function op, which holds the mutex, calls a function that locks it
LocksAgain(op) == Locks(op) /\ \E c \in Calls(op) : Locks(c)

\* the goroutine g calls the function op
LockEnter(g, op, i, j) ==
    /\ panicked = "" /\ steps < MaxCalls
    /\ pc[g].at = "idle"
    /\ pc' = [pc EXCEPT ![g] = [op |-> op, i |-> i, j |-> j,
                                at |-> IF Locks(op) THEN "lock" ELSE "body"]]
    /\ steps' = steps + 1
    /\ UNCHANGED <<images, backends, theBackends, imagesToMakeShared, minSize, maxSize,
                   onceDone, rimgs, theImages, forceRestoring, driver, panicked,
                   lastOp, frames, screenOrVolatile, facadeVars, sorted, resolved, mutex>>

LockCallMain ==
    \E op \in EntryPoints :
       \/ /\ op = "NewImage"
          /\ NextHandle <= MaxImages
          /\ LockEnter("main", op, 0, 0)
       \/ /\ op \in {"MakeImagesSharedForTesting", "BeforeUpdateHook"}
          /\ LockEnter("main", op, 0, 0)
       \/ /\ op \in {"PutVertex", "ReplacePixels", "Dispose"}
          /\ \E i \in (DOMAIN images) \ Held("finalizer") :
                ~images[i].disposed /\ LockEnter("main", op, i, 0)
       \/ /\ op = "DrawTriangles"
          /\ \E i, j \in (DOMAIN images) \ Held("finalizer") :
                ~images[i].disposed /\ ~images[j].disposed /\ LockEnter("main", op, i, j)

LockCallFinalizer ==
    \E i \in (DOMAIN images) \ (Held("main") \cup imagesToMakeShared) :
       /\ ~images[i].disposed /\ images[i].backend # 0
       /\ LockEnter("finalizer", "Dispose", i, 0)

\* backendsM.Lock() returns in the goroutine g
LockAcquire(g) ==
    /\ panicked = ""
    /\ pc[g].at = "lock"
    /\ mutex = ""
    /\ mutex' = g
    /\ pc' = [pc EXCEPT ![g].at = "body"]
    /\ UNCHANGED <<images, backends, theBackends, imagesToMakeShared, minSize, maxSize,
                   onceDone, rimgs, theImages, forceRestoring, driver, panicked,
                   lastOp, steps, frames, screenOrVolatile, facadeVars, sorted, resolved>>

\* the body of the call of g runs; a body that locks the mutex its goroutine
\* holds stays in backendsM.Lock()
LockBody(g) ==
    /\ panicked = ""
    /\ pc[g].at = "body"
    /\ IF LocksAgain(pc[g].op)
       THEN /\ pc' = [pc EXCEPT ![g].at = "lock"]
            /\ UNCHANGED <<images, backends, theBackends, imagesToMakeShared, minSize,
                           maxSize, onceDone, rimgs, theImages, forceRestoring, driver,
                           panicked, lastOp, frames, screenOrVolatile>>
       ELSE /\ \E order \in Orders(imagesToMakeShared) :
               \E w \in {Body(World, pc[g].op,
                              IF pc[g].op = "NewImage" THEN NextHandle ELSE pc[g].i,
                              pc[g].j, order)} \cup
                        (IF Racing(g) THEN {Panic(World, "fatal error: data race")} ELSE {}) :
                  Commit(w)
            /\ Record(pc[g].op, IF pc[g].op = "NewImage" THEN NextHandle ELSE pc[g].i,
                      pc[g].j)
            /\ pc' = [pc EXCEPT ![g].at = "exit"]
    /\ UNCHANGED <<steps, facadeVars, sorted, resolved, mutex>>

\* the call of g returns, or its panic unwinds: the deferred
\* backendsM.Unlock() runs; a fatal error of the runtime runs no deferred call
LockReturn(g) ==
    /\ pc[g].at = "exit"
    /\ panicked # "fatal error: data race"
    /\ pc' = [pc EXCEPT ![g] = Idle]
    /\ mutex' = IF mutex = g THEN "" ELSE mutex
    /\ UNCHANGED <<images, backends, theBackends, imagesToMakeShared, minSize, maxSize,
                   onceDone, rimgs, theImages, forceRestoring, driver, panicked,
                   lastOp, steps, frames, screenOrVolatile, facadeVars, sorted, resolved>>

LockNext ==
    \/ LockCallMain
    \/ LockCallFinalizer
    \/ \E g \in Goroutines : LockAcquire(g)
    \/ \E g \in Goroutines : LockBody(g)
    \/ \E g \in Goroutines : LockReturn(g)

\* the goroutine g takes its next step, which is LockAcquire(g), LockBody(g)
\* or LockReturn(g): the three are enabled as this action is, and their
\* steps are its steps
Runs(g) ==
    /\ \/ pc[g].at = "lock" /\ mutex = "" /\ panicked = ""
       \/ pc[g].at = "body" /\ panicked = ""
       \/ pc[g].at = "exit" /\ panicked # "fatal error: data race"
    /\ pc' = IF pc[g].at = "lock" THEN [pc EXCEPT ![g].at = "body"]
             ELSE IF pc[g].at = "exit" THEN [pc EXCEPT ![g] = Idle]
             ELSE [pc EXCEPT ![g].at = IF LocksAgain(pc[g].op) THEN "lock" ELSE "exit"]

\* sync.Mutex hands the mutex to a goroutine that waits for it, and a
\* goroutine that can run does run
SpecLock ==
    /\ ConcInit
    /\ [][LockNext]_vars
    /\ \A g \in Goroutines : WF_pc(Runs(g))

\* the goroutine that holds the mutex is in the body of a function that locks
\* or at its exit, and no goroutine waits for a mutex it holds
LockDiscipline ==
    \A g \in Goroutines :
       /\ mutex = g => (pc[g].at \in {"body", "exit"} /\ Locks(pc[g].op))
       /\ pc[g].at = "lock" => mutex # g
       /\ (pc[g].at = "body" /\ Locks(pc[g].op)) => mutex = g

\* C31: backendsM is never locked again by the goroutine that holds it, it
\* is free again when a function that locked it has returned or panicked,
\* and the Dispose of a finalizer that waits for it gets it, as long as the
\* program has not panicked.
C31_LockIsReleased ==
    /\ [](LockDiscipline)
    /\ (pc["finalizer"].at = "lock") ~> (pc["finalizer"].at = "body" \/ panicked # "")

\* the main goroutine has panicked in a draw of an image to itself while the
\* finalizer waits in backendsM.Lock(), and the mutex is free again
C31_Witness ==
    /\ panicked = "shareable: Image.DrawTriangles: img must be different from the receiver"
    /\ pc["main"] = Idle
    /\ pc["finalizer"].at = "lock"
    /\ mutex = ""

\* the finalizer has waited while the main goroutine drew, and has got the
\* mutex
C31_WitnessGranted ==
    /\ panicked = ""
    /\ lastOp.op = "DrawTriangles" /\ pc["main"] = Idle
    /\ pc["finalizer"].at = "body" /\ mutex = "finalizer"

-----------------------------------------------------------------------------
(* Properties of lastTarget *)

\* no registered image that is not stale has a draw of the image t in its
\* history
NoDependents(w, t) ==
    \A r \in w.theImages.images :
       ~w.rimgs[r].stale => t \notin dependingImages(w.rimgs[r])

\* the call changes the image t or removes it, and makeStaleIfDependingOnImpl
\* returns at its test of lastTarget
ReturnsEarly(t) ==
    /\ t # 0
    /\ theImages.lastTarget = t
    /\ lastOp'.op \in {"ReplacePixels", "DrawTriangles", "Dispose"}
    /\ lastOp'.i = t

\* C32: whenever makeStaleIfDependingOn(t) or remove(t) returns early
\* because lastTarget is t, no registered image that is not stale has a
\* history that refers to t (and none has after any call, for the
\* lastTarget it leaves); every pass of resolveStaleImages sets lastTarget
\* to nil.
C32_LastTargetNeverSkips ==
    [][/\ \A t \in DOMAIN rimgs : ReturnsEarly(t) => NoDependents(World, t)
       /\ theImages'.lastTarget # 0 => NoDependents(WorldNext, theImages'.lastTarget)
       /\ (lastOp'.op = "ResolveStaleImages" /\ needsRestoring(World))
          => theImages'.lastTarget = 0]_vars

\* two parts of the image 2 were uploaded one after the other, so that the
\* second call returned early, while the image 3 had been drawn from the
\* image 2 before and was made stale by the first
C32_Witness ==
    /\ panicked = "" /\ steps = 2
    /\ lastOp = Op("ReplacePixels", 2, 0) /\ theImages.lastTarget = 2
    /\ Len(rimgs[2].hist) >= 2
    /\ rimgs[2].hist[Len(rimgs[2].hist)].mode = "pixels"
    /\ rimgs[2].hist[Len(rimgs[2].hist) - 1].mode = "pixels"
    /\ 3 \in theImages.images /\ rimgs[3].stale

====
